---- MODULE Spec2Model ----
(***************************************************************************)
(* Hierarchical tensor-product spline basis (gsHTensorBasis<d,T>) of G+Smo *)
(* as a state machine: the partition tree, the per-level tensor bases, the *)
(* per-level active sets (characteristic matrices) and the offset table,   *)
(* with one action per public operation.                                   *)
(*                                                                         *)
(* Conventions.  Indices of knots, functions, cells and levels are 0-based *)
(* as in the C++ code; TLA+ sequences are 1-based, so element i of a C++   *)
(* vector v is v[i+1] here.  A point or a vector over the parametric       *)
(* directions is a tuple over 1..Dim (direction j of the code is j+1).     *)
(* Parameter values are integers: the value u of the code is u*Unit here,  *)
(* so every knot of every level the bounds allow is an even integer and    *)
(* odd integers are parameters strictly inside a cell of every level.      *)
(***************************************************************************)
EXTENDS Integers, Sequences, FiniteSets, TLC

\* Template parameter d of gsHTensorBasis<d,T>: the parametric dimension.
Dim == 2

\* Finest dyadic refinement (relative to the initial tensor basis) a
\* per-level basis may reach in the model.
MaxFine == 3

\* Largest number of boxes handed to one refine / refineElements call.
MaxBoxes == 2

\* Largest number of public operations in one behaviour.
MaxOps == 2

\* Largest polynomial degree reached by degreeElevate / degreeIncrease.
MaxDeg == 2

\* refineSide is called with at most this many levels.
MaxSideLvl == 2

\* refine(boxes, refExt) is called with a refinement extension up to this.
MaxExt == 1

\* The highest level two concurrent calls of needLevel ask for.
MaxNeed == 4

\* The largest increment given to next(increment) of the boundary iterator.
MaxIncrement == 3

\* The longest list given to flatTensorIndexesToHierachicalIndexes.
MaxIndexes == 3

Dirs == 1..Dim

RECURSIVE Pow2(_)
Pow2(n) == IF n <= 0 THEN 1 ELSE 2 * Pow2(n - 1)

\* Width of one element of the initial (level-0) basis in model units.
Unit == Pow2(MaxFine + 1)

Max(a, b) == IF a >= b THEN a ELSE b
Min(a, b) == IF a <= b THEN a ELSE b

SetMin(S) == CHOOSE x \in S : \A y \in S : x <= y
SetMax(S) == CHOOSE x \in S : \A y \in S : x >= y

Range(s) == { s[i] : i \in 1..Len(s) }

\* The vector over the parametric directions whose component j is F(j), and
\* a function on 1..n as an explicit sequence (both evaluated once).
Vec(F(_)) == IF Dim = 1 THEN << F(1) >>
             ELSE IF Dim = 2 THEN << F(1), F(2) >>
             ELSE << F(1), F(2), F(3) >>
AsTuple(f) == f \o << >>

\* std::vector::erase(begin()) / pop_back / resize to a shorter length
Front(s, n) == SubSeq(s, 1, n)
DropFirst(s) == SubSeq(s, 2, Len(s))

(***************************************************************************)
(* Knot vectors (gsKnotVector<T>): a non-decreasing sequence of knots with *)
(* a degree.                                                               *)
(***************************************************************************)

\* The unique knots (breakpoints) in increasing order: the knots that differ
\* from the knot before them.
UniqueOf(knots) ==
    LET withPrev == [i \in 1..Len(knots) |->
                        << knots[i], IF i = 1 THEN knots[1] - 1 ELSE knots[i - 1] >>]
        firsts   == SelectSeq(withPrev, LAMBDA p : p[1] # p[2])
    IN  AsTuple([i \in 1..Len(firsts) |-> firsts[i][1]])

\* gsKnotVector::uSize()
uSize(kv) == Len(UniqueOf(kv.knots))

\* uIndex() of the smart iterator at knot number i (0-based): the index of the
\* unique knot the i-th knot is a repetition of.
uIndexOfKnot(kv, i) == Cardinality({ v \in Range(kv.knots) : v < kv.knots[i + 1] })

\* gsKnotVector::uValue(i)
uValue(kv, i) == UniqueOf(kv.knots)[i + 1]

\* gsKnotVector::multiplicity(u)
multiplicity(kv, u) == Cardinality({ i \in 1..Len(kv.knots) : kv.knots[i] = u })

\* gsKnotVector::has(u)
has(kv, u) == u \in Range(kv.knots)

\* Number of B-splines: knots - degree - 1
kvSize(kv) == Len(kv.knots) - kv.deg - 1

\* n copies of u
RECURSIVE Copies(_, _)
Copies(u, n) == IF n <= 0 THEN << >> ELSE << u >> \o Copies(u, n - 1)

\* The sequence s repeated n times.
RECURSIVE Repeated(_, _)
Repeated(s, n) == IF n <= 0 THEN << >> ELSE s \o Repeated(s, n - 1)

\* gsKnotVector::uniformRefine(1, mul): the midpoint of every knot span of
\* positive length is inserted mul times.
RefinedKnots(knots, mul) ==
    LET u    == UniqueOf(knots)
        mids == [i \in 1..(Len(u) - 1) |-> (u[i] + u[i + 1]) \div 2]
    IN  SortSeq(knots \o Repeated(mids, mul), LAMBDA a, b : a < b)

kvUniformRefine(kv, mul) == [kv EXCEPT !.knots = RefinedKnots(kv.knots, mul)]

\* gsKnotVector::insert(knot, mult): the knot is inserted mult times, the
\* sequence stays sorted.
kvInsertKnot(kv, u, mult) ==
    LET below == SelectSeq(kv.knots, LAMBDA v : v <= u)
        above == SelectSeq(kv.knots, LAMBDA v : v > u)
    IN  [kv EXCEPT !.knots = below \o Copies(u, mult) \o above]

\* gsKnotVector::degreeElevate(i): the degree and the multiplicity of every
\* unique knot grow by i (the smoothness is kept).
ElevatedKnots(knots, i) ==
    SortSeq(knots \o Repeated(UniqueOf(knots), i), LAMBDA a, b : a < b)

kvDegreeElevate(kv, i) == [knots |-> ElevatedKnots(kv.knots, i), deg |-> kv.deg + i]

\* gsKnotVector::degreeIncrease(i): the degree grows by i and only the two end
\* knots get i more repetitions (the interior multiplicities are kept).
kvDegreeIncrease(kv, i) ==
    [knots |-> Copies(kv.knots[1], i) \o kv.knots \o Copies(kv.knots[Len(kv.knots)], i),
     deg   |-> kv.deg + i]

\* Length of the shortest knot span of positive length.
MinSpan(kv) ==
    LET u == UniqueOf(kv.knots)
    IN  SetMin({ u[i + 1] - u[i] : i \in 1..(Len(u) - 1) })

(***************************************************************************)
(* Tensor-product B-spline basis (gsTensorBSplineBasis<d,T>): one knot     *)
(* vector per direction.                                                   *)
(***************************************************************************)

\* gsTensorBSplineBasis::uniformRefine(1, mul)
tbUniformRefine(tb, mul) == Vec(LAMBDA j : kvUniformRefine(tb[j], mul))

\* gsTensorBSplineBasis::degreeElevate(i, dir); dir = -1 means every direction
tbDegreeElevate(tb, i, dir) ==
    Vec(LAMBDA j : IF dir = -1 \/ dir = j - 1 THEN kvDegreeElevate(tb[j], i) ELSE tb[j])

\* gsTensorBSplineBasis::degreeIncrease(i, dir); dir = -1 means every direction
tbDegreeIncrease(tb, i, dir) ==
    Vec(LAMBDA j : IF dir = -1 \/ dir = j - 1 THEN kvDegreeIncrease(tb[j], i) ELSE tb[j])

\* gsTensorBasis::size(j) and size()
tbSize(tb, j) == kvSize(tb[j])

\* gsTensorBasis::index(ind): the flat index of a tensor index, the first
\* direction running fastest.
RECURSIVE FlatFrom(_, _, _)
FlatFrom(tb, ind, j) ==
    IF j = Dim THEN ind[j] ELSE ind[j] + tbSize(tb, j) * FlatFrom(tb, ind, j + 1)

tbIndex(tb, ind) == FlatFrom(tb, ind, 1)

\* nextLexicographic(cur, start, end): the successor of cur in the box
\* [start, end) with the first coordinate running fastest; the result is
\* << >> when cur was the last point (the C++ function returns false).
RECURSIVE NextLexFrom(_, _, _, _)
NextLexFrom(cur, start, end, i) ==
    IF i > Dim THEN << >>
    ELSE IF cur[i] + 1 = end[i]
         THEN IF i = Dim THEN << >>
              ELSE NextLexFrom([cur EXCEPT ![i] = start[i]], start, end, i + 1)
    ELSE [cur EXCEPT ![i] = cur[i] + 1]

nextLexicographic(cur, start, end) == NextLexFrom(cur, start, end, 1)

(***************************************************************************)
(* Partition tree (gsHDomain<d>).  The tree is kept as the set of its      *)
(* leaves; a leaf is a box [lo, hi] in the coordinates of the index level  *)
(* (a level-L index k is the coordinate k * 2^(IndexLevel - L)) together   *)
(* with the level assigned to the box.                                     *)
(***************************************************************************)

\* The level whose indices the tree stores its coordinates in.
IndexLevel == MaxFine + 1

\* gsHDomain::local2globalIndex
local2globalIndex(k, lvl) == Vec(LAMBDA j : k[j] * Pow2(IndexLevel - lvl))

\* gsHDomain::init(upp): one leaf of level 0 covering the whole domain.
treeInit(upp) ==
    LET top == local2globalIndex(upp, 0)
    IN  [leaves      |-> { [lo |-> Vec(LAMBDA j : 0), hi |-> top, level |-> 0] },
         upperIndex  |-> top,
         maxInsLevel |-> 0]

\* gsHDomain::getMaxInsLevel()
getMaxInsLevel(t) == t.maxInsLevel

\* The interiors of the leaf and of the box [lo, hi] intersect.
Overlaps(leaf, lo, hi) == \A j \in Dirs : lo[j] < leaf.hi[j] /\ leaf.lo[j] < hi[j]

\* gsHDomain::isDegenerate(box)
isDegenerate(lo, hi) == \E j \in Dirs : lo[j] >= hi[j]

\* kdnode::adaptiveSplit applied until the leaf lies inside the box: the
\* pieces of the leaf that are cut off, direction by direction (the lower
\* face of the box first).
RECURSIVE CutOff(_, _, _)
CutOff(leaf, lo, hi) ==
    LET cut == { j \in Dirs : leaf.lo[j] < lo[j] \/ leaf.hi[j] > hi[j] }
    IN  IF cut = {} THEN {}
        ELSE LET j == SetMin(cut)
             IN  IF leaf.lo[j] < lo[j]
                 THEN { [leaf EXCEPT !.hi[j] = lo[j]] }
                        \cup CutOff([leaf EXCEPT !.lo[j] = lo[j]], lo, hi)
                 ELSE { [leaf EXCEPT !.lo[j] = hi[j]] }
                        \cup CutOff([leaf EXCEPT !.hi[j] = hi[j]], lo, hi)

\* The piece of the leaf that is left inside the box.
KeptIn(leaf, lo, hi) ==
    [leaf EXCEPT !.lo = Vec(LAMBDA j : Max(leaf.lo[j], lo[j])),
                 !.hi = Vec(LAMBDA j : Min(leaf.hi[j], hi[j]))]

\* gsHDomain::insertBox(k1, k2, lvl): the box is given in indices of level
\* lvl; every leaf of a lower level that meets the box is split and its part
\* inside the box is raised to lvl; leaves of level lvl or more are skipped.
insertBox(t, k1, k2, lvl) ==
    LET lo == local2globalIndex(k1, lvl)
        hi == local2globalIndex(k2, lvl)
    IN  IF isDegenerate(k1, k2) THEN t
        ELSE IF \E j \in Dirs : lo[j] >= t.upperIndex[j] THEN t
        ELSE [t EXCEPT
                !.leaves = UNION { IF Overlaps(l, lo, hi) /\ l.level < lvl
                                   THEN { [KeptIn(l, lo, hi) EXCEPT !.level = lvl] }
                                          \cup CutOff(l, lo, hi)
                                   ELSE { l } : l \in t.leaves },
                !.maxInsLevel = Max(t.maxInsLevel, lvl)]

\* gsHDomain::sinkBox(k1, k2, lvl): the box is given in indices of level lvl;
\* every leaf that meets the box is split and its part inside the box goes
\* one level down the hierarchy (a box inside a cell of level L is sunk to
\* level L+1).
sinkBox(t, k1, k2, lvl) ==
    LET lo == local2globalIndex(k1, lvl)
        hi == local2globalIndex(k2, lvl)
        hit == { l \in t.leaves : Overlaps(l, lo, hi) }
    IN  IF isDegenerate(k1, k2) THEN t
        ELSE IF \E j \in Dirs : lo[j] >= t.upperIndex[j] THEN t
        ELSE [t EXCEPT
                !.leaves = UNION { IF l \in hit
                                   THEN { [KeptIn(l, lo, hi) EXCEPT !.level = l.level + 1] }
                                          \cup CutOff(l, lo, hi)
                                   ELSE { l } : l \in t.leaves },
                !.maxInsLevel = SetMax({ t.maxInsLevel }
                                        \cup { l.level + 1 : l \in hit })]

\* gsHDomain::query3(k1, k2, lvl): the lowest level among the leaves that meet
\* the box, the box given in indices of level lvl.
query3(t, k1, k2, lvl) ==
    LET lo == local2globalIndex(k1, lvl)
        hi == local2globalIndex(k2, lvl)
    IN  SetMin({ l.level : l \in { m \in t.leaves : Overlaps(m, lo, hi) } })

\* gsHDomain::levelOf(p, lvl): the level of the leaf holding the cell whose
\* lower corner has index p at level lvl.
levelOf(t, p, lvl) ==
    LET g == local2globalIndex(p, lvl)
    IN  (CHOOSE l \in t.leaves : \A j \in Dirs : l.lo[j] <= g[j] /\ g[j] < l.hi[j]).level

\* gsHDomain::multiplyByTwo(): every coordinate of the tree is doubled.
multiplyByTwo(t) ==
    [t EXCEPT !.leaves = { [l EXCEPT !.lo = Vec(LAMBDA j : 2 * l.lo[j]),
                                     !.hi = Vec(LAMBDA j : 2 * l.hi[j])] : l \in t.leaves },
              !.upperIndex = Vec(LAMBDA j : 2 * t.upperIndex[j])]

\* gsHDomain::decrementLevel(): the level of every leaf and the maximum
\* inserted level go down by one; the leaves keep their parametric regions,
\* which level L-1 now indexes as level L did.
decrementLevel(t) ==
    [t EXCEPT !.leaves = { [lo    |-> Vec(LAMBDA j : 2 * l.lo[j]),
                            hi    |-> Vec(LAMBDA j : 2 * l.hi[j]),
                            level |-> l.level - 1] : l \in t.leaves },
              !.upperIndex = Vec(LAMBDA j : 2 * t.upperIndex[j]),
              !.maxInsLevel = t.maxInsLevel - 1]

\* gsHDomain::makeCompressed(): housekeeping of the inner nodes; the level
\* assigned to every cell, which is all the leaf set records, is kept.
treeMakeCompressed(t) == t

(***************************************************************************)
(* The hierarchical basis.  An object state is a record                    *)
(*   tree   : m_tree            bases  : m_bases (one tensor basis/level)  *)
(*   xmatrix: m_xmatrix         offset : m_xmatrix_offset    deg : m_deg   *)
(***************************************************************************)

\* gsHTensorBasis::needLevel(maxLevel)
RECURSIVE AppendLevels(_, _)
AppendLevels(bases, extraLevels) ==
    IF extraLevels <= 0 THEN bases
    ELSE AppendLevels(Append(bases, tbUniformRefine(bases[Len(bases)], 1)),
                      extraLevels - 1)

\* needLevel that counts one level too many.
needLevel_OneMore(s, maxLevel) ==
    [s EXCEPT !.bases = AppendLevels(s.bases, maxLevel + 2 - Len(s.bases))]

\* needLevel, line 869, with one level too many.
extraLevels_OneMore(maxLevel, size) == maxLevel + 2 - size

\* needLevel, line 869: const int extraLevels = maxLevel + 1 - m_bases.size()
extraLevels(maxLevel, size) == maxLevel + 1 - size

needLevel(s, maxLevel) ==
    [s EXCEPT !.bases = AppendLevels(s.bases, maxLevel + 1 - Len(s.bases))]

\* The point that n calls of nextLexicographic(cur, start, end) reach from
\* start: the first coordinate runs fastest.
RECURSIVE LexDigits(_, _, _, _)
LexDigits(n, start, end, j) ==
    IF j > Dim THEN << >>
    ELSE << start[j] + (n % (end[j] - start[j])) >>
           \o LexDigits(n \div (end[j] - start[j]), start, end, j + 1)

lexPoint(n, start, end) == LexDigits(n, start, end, 1)

\* Number of points of the box [start, end)
RECURSIVE lexCountFrom(_, _, _)
lexCountFrom(start, end, j) ==
    IF j > Dim THEN 1 ELSE (end[j] - start[j]) * lexCountFrom(start, end, j + 1)

lexCount(start, end) == lexCountFrom(start, end, 1)

\* uIndex() of every knot of the knot vector, in the order of the knots
knotUIndices(kv) == AsTuple([i \in 1..Len(kv.knots) |-> uIndexOfKnot(kv, i - 1)])

\* isActiveAt that takes a function for active when no leaf under it is
\* coarser than the level.
isActiveAt_AtLeast(s, level, ux, curr) ==
    LET low == Vec(LAMBDA j : ux[j][curr[j] + 1])
        upp == Vec(LAMBDA j : ux[j][curr[j] + s.deg[j] + 1 + 1])
    IN  query3(s.tree, low, upp, level) >= level

\* set_activ1, lines 588-596: the function curr of the level is active; ux
\* holds the unique index of every knot of every direction of the level.
isActiveAt(s, level, ux, curr) ==
    LET low == Vec(LAMBDA j : ux[j][curr[j] + 1])
        upp == Vec(LAMBDA j : ux[j][curr[j] + s.deg[j] + 1 + 1])
    IN  query3(s.tree, low, upp, level) = level

\* set_activ1 whose last step sorts the pushes in decreasing order.
set_activ1_Decreasing(s, level) ==
    IF level > getMaxInsLevel(s.tree) THEN << >>
    ELSE LET tb      == s.bases[level + 1]
             ux      == Vec(LAMBDA j : knotUIndices(tb[j]))
             starts  == Vec(LAMBDA j : 0)
             ends    == Vec(LAMBDA j : Len(tb[j].knots) - s.deg[j] - 1)
             visited == [n \in 1..lexCount(starts, ends) |-> lexPoint(n - 1, starts, ends)]
             active  == SelectSeq(visited, LAMBDA curr : isActiveAt(s, level, ux, curr))
             pushes  == [n \in 1..Len(active) |-> tbIndex(tb, active[n])]
         IN  SortSeq(pushes, LAMBDA a, b : a > b)

\* gsHTensorBasis::set_activ1(level): the new characteristic matrix of level.
\* The loop visits the functions in the order of nextLexicographic and
\* pushes the flat index of every active one; the pushes are sorted.
set_activ1(s, level) ==
    IF level > getMaxInsLevel(s.tree) THEN << >>
    ELSE LET tb      == s.bases[level + 1]
             ux      == Vec(LAMBDA j : knotUIndices(tb[j]))
             starts  == Vec(LAMBDA j : 0)
             ends    == Vec(LAMBDA j : Len(tb[j].knots) - s.deg[j] - 1)
             visited == [n \in 1..lexCount(starts, ends) |-> lexPoint(n - 1, starts, ends)]
             active  == SelectSeq(visited, LAMBDA curr : isActiveAt(s, level, ux, curr))
             pushes  == [n \in 1..Len(active) |-> tbIndex(tb, active[n])]
         IN  SortSeq(pushes, LAMBDA a, b : a < b)

\* The offsets of update_structure: 0 followed by the running sums of the
\* sizes of the characteristic matrices.
RECURSIVE OffsetsOf(_, _)
OffsetsOf(xmatrix, acc) ==
    IF Len(xmatrix) = 0 THEN << acc >>
    ELSE << acc >> \o OffsetsOf(Tail(xmatrix), acc + Len(xmatrix[1]))

\* update_structure whose offsets are the sizes of the levels, the running
\* sum forgotten.
update_structure_NoRunningSum(s) ==
    LET s1 == needLevel(s, getMaxInsLevel(s.tree))
        s2 == [s1 EXCEPT !.tree = treeMakeCompressed(s1.tree)]
        xm == AsTuple([i \in 1..Len(s2.bases) |-> set_activ1(s2, i - 1)])
    IN  [s2 EXCEPT !.xmatrix = xm,
                   !.offset = << 0 >> \o AsTuple([i \in 1..Len(xm) |-> Len(xm[i])])]

\* gsHTensorBasis::update_structure()
update_structure(s) ==
    LET s1 == needLevel(s, getMaxInsLevel(s.tree))
        s2 == [s1 EXCEPT !.tree = treeMakeCompressed(s1.tree)]
        xm == AsTuple([i \in 1..Len(s2.bases) |-> set_activ1(s2, i - 1)])
    IN  [s2 EXCEPT !.xmatrix = xm, !.offset = OffsetsOf(xm, 0)]

\* gsHTensorBasis::initialize_class(tbasis): the degrees, the initial basis,
\* the tree over the elements of the initial basis and two more levels.
initialize_class(tbasis) ==
    LET b1 == tbUniformRefine(tbasis, 1)
        b2 == tbUniformRefine(b1, 1)
    IN  [tree    |-> treeInit(Vec(LAMBDA j : uSize(tbasis[j]) - 1)),
         bases   |-> << tbasis, b1, b2 >>,
         xmatrix |-> << >>,
         offset  |-> << >>,
         deg     |-> Vec(LAMBDA j : tbasis[j].deg)]

\* gsHTensorBasis(tbasis): the constructor
construct(tbasis) == update_structure(initialize_class(tbasis))

\* gsHTensorBasis::size()
size(s) == s.offset[Len(s.offset)]

\* gsKnotVector::domainUBegin() / domainUEnd(): the indices of the unique
\* knots at which the parametric domain starts and ends.
domainUBegin(kv) == uIndexOfKnot(kv, kv.deg)
domainUEnd(kv) == uIndexOfKnot(kv, Len(kv.knots) - kv.deg - 1)

\* std::upper_bound over the unique knots with indices first..last-1: the
\* index of the first unique knot greater than v, last if there is none.
upper_bound(kv, first, last, v) ==
    LET u     == UniqueOf(kv.knots)
        above == { i \in first..(last - 1) : u[i + 1] > v }
    IN  IF above = {} THEN last ELSE SetMin(above)

\* gsHTensorBasis::support(): the parametric domain, from level 0
support(s) ==
    Vec(LAMBDA j : << s.bases[1][j].knots[s.bases[1][j].deg + 1],
                      s.bases[1][j].knots[Len(s.bases[1][j].knots) - s.bases[1][j].deg] >>)

\* The index box of refine without the expansion of the trivial boxes.
refineIndexBox_NoExpansion(s, box) ==
    LET pair(kv, lo, hi) ==
            << upper_bound(kv, domainUBegin(kv), domainUEnd(kv), lo) - 1,
               upper_bound(kv, domainUBegin(kv), domainUEnd(kv) + 1, hi) - 1 >>
        raw == Vec(LAMBDA j : pair(s.bases[Len(s.bases)][j], box.lo[j], box.hi[j]))
    IN  [k1 |-> Vec(LAMBDA j : raw[j][1]), k2 |-> Vec(LAMBDA j : raw[j][2])]

\* refine(boxes), lines 380-394: the index box [k1, k2] of the finest level
\* computed for one parametric box (a box is a record lo, hi of points).
refineIndexBox(s, box) ==
    LET pair(kv, lo, hi) ==
            LET a == upper_bound(kv, domainUBegin(kv), domainUEnd(kv), lo) - 1
                b == upper_bound(kv, domainUBegin(kv), domainUEnd(kv) + 1, hi) - 1
            IN  IF a = b
                THEN << (IF 0 # a THEN a - 1 ELSE a), b + 1 >>
                ELSE << a, b >>
        raw == Vec(LAMBDA j : pair(s.bases[Len(s.bases)][j], box.lo[j], box.hi[j]))
    IN  [k1 |-> Vec(LAMBDA j : raw[j][1]), k2 |-> Vec(LAMBDA j : raw[j][2])]

\* refine(boxes), the body of the loop over the boxes (lines 375-406)
refineOneBox(s, box) ==
    LET fLevel == Len(s.bases) - 1
        ib     == refineIndexBox(s, box)
        t      == sinkBox(s.tree, ib.k1, ib.k2, fLevel)
    IN  needLevel([s EXCEPT !.tree = t], getMaxInsLevel(t))

RECURSIVE refineLoop(_, _)
refineLoop(s, boxes) ==
    IF Len(boxes) = 0 THEN s ELSE refineLoop(refineOneBox(s, Head(boxes)), Tail(boxes))

\* gsHTensorBasis::refine(boxes): boxes is the sequence of the parametric
\* boxes (the column pairs of the matrix).
refine(s, boxes) == update_structure(refineLoop(s, boxes))

\* insert_box that inserts the box one level too low.
insert_box_LevelBelow(s, k1, k2, lvl) ==
    LET t == insertBox(s.tree, k1, k2, lvl - 1)
    IN  needLevel([s EXCEPT !.tree = t], getMaxInsLevel(t))

\* gsHTensorBasis::insert_box(k1, k2, lvl)
insert_box(s, k1, k2, lvl) ==
    LET t == insertBox(s.tree, k1, k2, lvl)
    IN  needLevel([s EXCEPT !.tree = t], getMaxInsLevel(t))

\* The loop of refineElements that leaves out the last box.
RECURSIVE refineElementsLoop_SkipsLast(_, _, _)
refineElementsLoop_SkipsLast(s, boxes, i) ==
    IF i >= (Len(boxes) \div (2 * Dim + 1)) - 1 THEN s
    ELSE LET i1 == Vec(LAMBDA j : boxes[(i * (2 * Dim + 1)) + (j - 1) + 1 + 1])
             i2 == Vec(LAMBDA j : boxes[(i * (2 * Dim + 1)) + Dim + (j - 1) + 1 + 1])
         IN  refineElementsLoop_SkipsLast(insert_box(s, i1, i2, boxes[i * (2 * Dim + 1) + 1]),
                                          boxes, i + 1)

\* gsHTensorBasis::refineElements(boxes), the loop: boxes is the flat vector
\* of 2d+1 numbers per box (level, lower corner, upper corner); i counts the
\* boxes from 0.
RECURSIVE refineElementsLoop(_, _, _)
refineElementsLoop(s, boxes, i) ==
    IF i >= Len(boxes) \div (2 * Dim + 1) THEN s
    ELSE LET i1 == Vec(LAMBDA j : boxes[(i * (2 * Dim + 1)) + (j - 1) + 1 + 1])
             i2 == Vec(LAMBDA j : boxes[(i * (2 * Dim + 1)) + Dim + (j - 1) + 1 + 1])
         IN  refineElementsLoop(insert_box(s, i1, i2, boxes[i * (2 * Dim + 1) + 1]),
                                boxes, i + 1)

\* gsHTensorBasis::refineElements(boxes)
refineElements(s, boxes) == update_structure(refineElementsLoop(s, boxes, 0))

\* gsKnotVector::uFind(u): the unique index of the knot span that holds u,
\* the last span for the last knot; u2 is twice u (the centre of a box need
\* not be a knot of the model).
uFind(kv, u2) ==
    LET below == { i \in 0..(uSize(kv) - 2) : 2 * uValue(kv, i) <= u2 }
    IN  IF below = {} THEN 0 ELSE SetMax(below)

\* gsHTensorBasis::getLevelAtPoint(Pt): Pt2 is twice the point. With no
\* tensor basis of the maximum inserted level, m_bases[maxLevel] is read past
\* the end of the array and the result is whatever that read gives: oob.
getLevelAtPoint(s, Pt2, oob) ==
    LET maxLevel == getMaxInsLevel(s.tree)
    IN  IF maxLevel >= Len(s.bases) THEN oob
        ELSE levelOf(s.tree,
                     Vec(LAMBDA i : uFind(s.bases[maxLevel + 1][i], Pt2[i])),
                     maxLevel)

\* The index box of refine(boxes, refExt) grown by refExt cells of level
\* refLevel only, not of the coarser level.
extendedIndexBox_GrownOnce(s, box, refLevel, refExt) ==
    LET pair(kv, lo, hi) ==
            LET k1 == upper_bound(kv, domainUBegin(kv), domainUEnd(kv), lo) - 1
                k2 == upper_bound(kv, domainUBegin(kv), domainUEnd(kv) + 1, hi) - 1
                maxKtIndex == Len(kv.knots)
            IN  << (IF k1 < refExt THEN 0 ELSE k1 - refExt),
                   (IF k2 + refExt >= maxKtIndex THEN maxKtIndex - 1
                    ELSE k2 + refExt) >>
        raw == Vec(LAMBDA j : pair(s.bases[refLevel + 1][j], box.lo[j], box.hi[j]))
    IN  [k1 |-> Vec(LAMBDA j : raw[j][1]), k2 |-> Vec(LAMBDA j : raw[j][2])]

\* refine(boxes, refExt), lines 323-338: the index box of level refLevel of
\* one parametric box with the refinement extension added.
extendedIndexBox(s, box, refLevel, refExt) ==
    LET pair(kv, lo, hi) ==
            LET k1 == upper_bound(kv, domainUBegin(kv), domainUEnd(kv), lo) - 1
                k2 == upper_bound(kv, domainUBegin(kv), domainUEnd(kv) + 1, hi) - 1
                maxKtIndex == Len(kv.knots)
            IN  << (IF k1 < 2 * refExt THEN 0 ELSE k1 - (2 * refExt)),
                   (IF k2 + (2 * refExt) >= maxKtIndex THEN maxKtIndex - 1
                    ELSE k2 + (2 * refExt)) >>
        raw == Vec(LAMBDA j : pair(s.bases[refLevel + 1][j], box.lo[j], box.hi[j]))
    IN  [k1 |-> Vec(LAMBDA j : raw[j][1]), k2 |-> Vec(LAMBDA j : raw[j][2])]

\* refine(boxes, refExt), the loop over the boxes (lines 311-344): the
\* tensor bases it makes sure of and the vector refVector it fills.
RECURSIVE refineExtLoop(_, _, _, _, _)
refineExtLoop(s, boxes, refExt, oob, refVector) ==
    IF Len(boxes) = 0 THEN [s |-> s, refVector |-> refVector]
    ELSE LET box      == Head(boxes)
             ctr2     == Vec(LAMBDA j : box.lo[j] + box.hi[j])
             refLevel == getLevelAtPoint(s, ctr2, oob) + 1
             s1       == needLevel(s, refLevel)
             ib       == extendedIndexBox(s1, box, refLevel, refExt)
         IN  refineExtLoop(s1, Tail(boxes), refExt, oob,
                           refVector \o << refLevel >> \o ib.k1 \o ib.k2)

\* gsHTensorBasis::refine(boxes, refExt) before its last update_structure
refine_refExt_Levels(s, boxes, refExt, oob) ==
    IF refExt = 0
    THEN LET r == refine(s, boxes)
         IN  needLevel(r, getMaxInsLevel(r.tree))
    ELSE LET r == refineExtLoop(s, boxes, refExt, oob, << >>)
         IN  refineElements(r.s, r.refVector)

\* gsHTensorBasis::refine(boxes, refExt)
refine_refExt(s, boxes, refExt, oob) ==
    update_structure(refine_refExt_Levels(s, boxes, refExt, oob))

\* boxSide::direction() and boxSide::parameter() of the side with index
\* side (west 1, east 2, south 3, north 4, ...)
sideDirection(side) == (side - 1) \div 2
sideParameter(side) == (side + 1) % 2

\* refineSide, lines 445-448: the box rf, the side of the support
sideBox(s, side) ==
    LET dir == sideDirection(side) + 1
        par == sideParameter(side)
        sup == support(s)
        at  == sup[dir][par + 1]
    IN  [lo |-> Vec(LAMBDA j : IF j = dir THEN at ELSE sup[j][1]),
         hi |-> Vec(LAMBDA j : IF j = dir THEN at ELSE sup[j][2])]

\* The loop of refineSide that stops one call of refine early.
RECURSIVE refineTimes_OneLess(_, _, _)
refineTimes_OneLess(s, rf, n) ==
    IF n <= 1 THEN s ELSE refineTimes_OneLess(refine(s, << rf >>), rf, n - 1)

\* refineSide, lines 449-450: refine(rf) is called n times
RECURSIVE refineTimes(_, _, _)
refineTimes(s, rf, n) == IF n <= 0 THEN s ELSE refineTimes(refine(s, << rf >>), rf, n - 1)

\* gsHTensorBasis::refineSide(side, lvl)
refineSide(s, side, lvl) == refineTimes(s, sideBox(s, side), lvl)

\* uniformRefineLevels that appends the copy of the finest basis unrefined.
uniformRefineLevels_CopyOnly(s, mul) ==
    LET kept == DropFirst(s.bases)
    IN  [s EXCEPT !.bases = Append(kept, kept[Len(kept)]), !.tree = multiplyByTwo(s.tree)]

\* uniformRefine, lines 1049-1063: the coarsest basis is dropped, a refined
\* copy of the finest is appended and the tree is multiplied by two.
uniformRefineLevels(s, mul) ==
    LET kept == DropFirst(s.bases)
        last == tbUniformRefine(kept[Len(kept)], mul)
    IN  [s EXCEPT !.bases = Append(kept, last), !.tree = multiplyByTwo(s.tree)]

\* gsHTensorBasis::uniformRefine(numKnots, mul), numKnots = 1
uniformRefine(s, mul) == update_structure(uniformRefineLevels(s, mul))

\* degreeElevate, lines 1348-1352: every level is elevated, m_deg follows
degreeElevateLevels(s, i, dir) ==
    LET bs == AsTuple([l \in 1..Len(s.bases) |-> tbDegreeElevate(s.bases[l], i, dir)])
    IN  [s EXCEPT !.bases = bs, !.deg = Vec(LAMBDA c : bs[1][c].deg)]

\* degreeElevate that returns without update_structure.
degreeElevate_NoUpdate(s, i, dir) == degreeElevateLevels(s, i, dir)

\* gsHTensorBasis::degreeElevate(i, dir)
degreeElevate(s, i, dir) == update_structure(degreeElevateLevels(s, i, dir))

\* degreeIncrease, lines 1360-1364
degreeIncreaseLevels(s, i, dir) ==
    LET bs == AsTuple([l \in 1..Len(s.bases) |-> tbDegreeIncrease(s.bases[l], i, dir)])
    IN  [s EXCEPT !.bases = bs, !.deg = Vec(LAMBDA c : bs[1][c].deg)]

\* gsHTensorBasis::degreeIncrease(i, dir)
degreeIncrease(s, i, dir) == update_structure(degreeIncreaseLevels(s, i, dir))

\* increaseMultiplicity, lines 1284-1295: the knot is inserted at level lvl
\* and above when level lvl has it
increaseMultiplicityLevels(s, lvl, dir, knotValue, mult) ==
    LET bs == IF has(s.bases[lvl + 1][dir + 1], knotValue)
              THEN AsTuple([l \in 1..Len(s.bases) |->
                      IF l - 1 >= lvl
                      THEN [s.bases[l] EXCEPT
                              ![dir + 1] = kvInsertKnot(s.bases[l][dir + 1], knotValue, mult)]
                      ELSE s.bases[l]])
              ELSE s.bases
    IN  [s EXCEPT !.bases = bs]

\* gsHTensorBasis::increaseMultiplicity(lvl, dir, knotValue, mult)
increaseMultiplicity(s, lvl, dir, knotValue, mult) ==
    update_structure(increaseMultiplicityLevels(s, lvl, dir, knotValue, mult))

\* transfer, lines 1223-1224: empty characteristic matrices are appended
\* while there are no more of them than old has.
RECURSIVE padXmatrix(_, _)
padXmatrix(xmatrix, oldSize) ==
    IF oldSize >= Len(xmatrix) THEN padXmatrix(Append(xmatrix, << >>), oldSize)
    ELSE xmatrix

\* transfer, lines 1233-1234: the empty characteristic matrices at the end
\* are dropped.
RECURSIVE dropEmptyBack(_)
dropEmptyBack(xmatrix) ==
    IF Len(xmatrix) > 0 /\ Len(xmatrix[Len(xmatrix)]) = 0
    THEN dropEmptyBack(Front(xmatrix, Len(xmatrix) - 1))
    ELSE xmatrix

\* transfer that drops the empty active sets and keeps the tensor bases.
transfer_KeepsBases(s, old) ==
    LET s1 == needLevel(s, Len(old))
    IN  [s1 EXCEPT !.xmatrix = dropEmptyBack(padXmatrix(s1.xmatrix, Len(old)))]

\* gsHTensorBasis::transfer(old, result): what it does to the basis
transfer(s, old) ==
    LET s1 == needLevel(s, Len(old))
        xm == dropEmptyBack(padXmatrix(s1.xmatrix, Len(old)))
        sizeDiff == Len(s1.bases) - Len(xm)
    IN  [s1 EXCEPT !.xmatrix = xm,
                   !.bases = IF sizeDiff > 0 THEN Front(s1.bases, Len(xm)) ELSE s1.bases]

\* gsHTensorBasis::transfer2(old, result): what it does to the basis
transfer2(s, old) ==
    LET s1 == needLevel(s, Len(old))
    IN  [s1 EXCEPT !.xmatrix = padXmatrix(s1.xmatrix, Len(old))]

\* gsHTensorBasis::refineElements_withTransfer(boxes, tran)
refineElements_withTransfer(s, boxes) ==
    LET OX == s.xmatrix
    IN  transfer(refineElements(s, boxes), OX)

\* gsHTensorBasis::refineElements_withCoefs2(coefs, boxes)
refineElements_withCoefs2(s, boxes) ==
    LET OX == s.xmatrix
    IN  transfer2(refineElements(s, boxes), OX)

\* gsTensorBSplineBasis::active_cwise(u, low, upp): in every direction the
\* functions that are not zero on the knot span of u, degree + 1 of them;
\* u2 is twice u.
active_cwise(tb, u2) ==
    LET last(kv, x2) == SetMax({ kv.deg } \cup
                               { i \in kv.deg..(Len(kv.knots) - kv.deg - 2) :
                                     2 * kv.knots[i + 1] <= x2 })
    IN  [low |-> Vec(LAMBDA j : last(tb[j], u2[j]) - tb[j].deg),
         upp |-> Vec(LAMBDA j : last(tb[j], u2[j]))]

\* gsSortedVector: the position of x in the sorted vector
rankIn(xm, x) == Cardinality({ y \in Range(xm) : y < x })

\* The entries of one level that lack the offset of the level.
activeOfLevel_LocalRank(s, i, u2) ==
    LET tb    == s.bases[i + 1]
        cw    == active_cwise(tb, u2)
        upp1  == Vec(LAMBDA j : cw.upp[j] + 1)
        cube  == AsTuple([n \in 1..lexCount(cw.low, upp1) |->
                            tbIndex(tb, lexPoint(n - 1, cw.low, upp1))])
        found == SelectSeq(cube, LAMBDA x : x \in Range(s.xmatrix[i + 1]))
    IN  AsTuple([n \in 1..Len(found) |-> rankIn(s.xmatrix[i + 1], found[n])])

\* active_into, lines 951-965: the entries of level i for the point: the
\* functions of the cube of active_cwise, in the order of nextCubePoint (the
\* first direction runs fastest), that are found in the characteristic
\* matrix of the level.
activeOfLevel(s, i, u2) ==
    LET tb    == s.bases[i + 1]
        cw    == active_cwise(tb, u2)
        upp1  == Vec(LAMBDA j : cw.upp[j] + 1)
        cube  == AsTuple([n \in 1..lexCount(cw.low, upp1) |->
                            tbIndex(tb, lexPoint(n - 1, cw.low, upp1))])
        found == SelectSeq(cube, LAMBDA x : x \in Range(s.xmatrix[i + 1]))
    IN  AsTuple([n \in 1..Len(found) |->
                    s.offset[i + 1] + rankIn(s.xmatrix[i + 1], found[n])])

\* active_into, lines 939-967: the loop over the levels 0..lvl
RECURSIVE activeOfLevels(_, _, _, _)
activeOfLevels(s, i, lvl, u2) ==
    IF i > lvl THEN << >>
    ELSE activeOfLevel(s, i, u2) \o activeOfLevels(s, i + 1, lvl, u2)

\* active_into reads m_bases[maxLevel] and m_xmatrix[0..lvl]: they are there.
activeIntoDefined(s, u2) ==
    /\ getMaxInsLevel(s.tree) < Len(s.bases)
    /\ getLevelAtPoint(s, u2, 0) < Len(s.xmatrix)

\* active_into, lines 930-972: temp_output[p] of the point; oob is what the
\* reads past the end of the arrays give when the arrays are too short.
activeOfPoint(s, u2, oob) ==
    IF ~activeIntoDefined(s, u2) THEN oob
    ELSE activeOfLevels(s, 0, getLevelAtPoint(s, u2, 0), u2)

\* gsHTensorBasis::active_into(u, result): the columns of result, one for
\* every point of u, filled with zeros up to the length of the longest.
active_into(s, u, oob) ==
    LET temp_output == AsTuple([p \in 1..Len(u) |-> activeOfPoint(s, u[p], oob)])
        sz          == SetMax({ 0 } \cup { Len(temp_output[p]) : p \in 1..Len(u) })
    IN  AsTuple([p \in 1..Len(u) |->
                    temp_output[p] \o Copies(0, sz - Len(temp_output[p]))])

\* numActive that counts the functions of the level of the point only.
numActiveOfPoint_LevelOfPoint(s, u2) ==
    LET lvl  == getLevelAtPoint(s, u2, 0)
        tb   == s.bases[lvl + 1]
        cw   == active_cwise(tb, u2)
        upp1 == Vec(LAMBDA j : cw.upp[j] + 1)
    IN  Cardinality({ n \in 1..lexCount(cw.low, upp1) :
                          tbIndex(tb, lexPoint(n - 1, cw.low, upp1))
                              \in Range(s.xmatrix[lvl + 1]) })

numActive_LevelOfPoint(s, u, oob) ==
    AsTuple([p \in 1..Len(u) |->
                IF ~activeIntoDefined(s, u[p]) THEN oob
                ELSE numActiveOfPoint_LevelOfPoint(s, u[p])])

\* numActive, lines 82-102: result[p] of one point, which starts at zero and
\* goes up by one for every point of the cube of active_cwise of every
\* level 0..lvl whose index find_it_or_fail finds in the characteristic
\* matrix of the level.
numActiveOfPoint(s, u2) ==
    LET lvl  == getLevelAtPoint(s, u2, 0)
        hits(i) ==
            LET tb   == s.bases[i + 1]
                cw   == active_cwise(tb, u2)
                upp1 == Vec(LAMBDA j : cw.upp[j] + 1)
            IN  { << i, n >> : n \in { m \in 1..lexCount(cw.low, upp1) :
                                          tbIndex(tb, lexPoint(m - 1, cw.low, upp1))
                                              \in Range(s.xmatrix[i + 1]) } }
    IN  Cardinality(UNION { hits(i) : i \in 0..lvl })

\* gsHTensorBasis::numActive(u, result): result, one entry for every point
\* of u; oob is what the reads past the end of the arrays give, as in
\* active_into.
numActive(s, u, oob) ==
    AsTuple([p \in 1..Len(u) |->
                IF ~activeIntoDefined(s, u[p]) THEN oob ELSE numActiveOfPoint(s, u[p])])

\* The hierarchical index without the offset of the level.
flatTensorIndexToHierachicalIndex_NoOffset(s, index, level) ==
    IF Len(s.xmatrix) <= level THEN -1
    ELSE LET xm == s.xmatrix[level + 1]
             it == Cardinality({ n \in 1..Len(xm) : xm[n] < index }) + 1
         IN  IF it = Len(xm) + 1 \/ xm[it] # index THEN -1
             ELSE it - 1

\* gsHTensorBasis::flatTensorIndexToHierachicalIndex(index, level): it is
\* the position std::lower_bound gives in the sorted active set, the first
\* element that is not less than index.
flatTensorIndexToHierachicalIndex(s, index, level) ==
    IF Len(s.xmatrix) <= level THEN -1
    ELSE LET xm == s.xmatrix[level + 1]
             it == Cardinality({ n \in 1..Len(xm) : xm[n] < index }) + 1
         IN  IF it = Len(xm) + 1 \/ xm[it] # index THEN -1
             ELSE s.offset[level + 1] + (it - 1)

\* flatTensorIndexesToHierachicalIndexes, lines 773-797: the two loops, with
\* ind the place of ind_pointer in indexes and xmat the place of
\* xmat_pointer in the active set; index is xmat - 1.
RECURSIVE flatIndexesLoop(_, _, _, _, _)
flatIndexesLoop(s, indexes, level, ind, xmat) ==
    LET xm == s.xmatrix[level + 1]
    IN  IF ind > Len(indexes) THEN indexes
        ELSE IF xmat > Len(xm)
        THEN flatIndexesLoop(s, [indexes EXCEPT ![ind] = -1], level, ind + 1, xmat)
        ELSE IF indexes[ind] < xm[xmat]
        THEN flatIndexesLoop(s, [indexes EXCEPT ![ind] = -1], level, ind + 1, xmat)
        ELSE IF indexes[ind] = xm[xmat]
        THEN flatIndexesLoop(s, [indexes EXCEPT ![ind] = s.offset[level + 1] + (xmat - 1)],
                             level, ind + 1, xmat + 1)
        ELSE flatIndexesLoop(s, indexes, level, ind, xmat + 1)

\* gsHTensorBasis::flatTensorIndexesToHierachicalIndexes(indexes, level):
\* the value of indexes after the call
flatTensorIndexesToHierachicalIndexes(s, indexes, level) ==
    flatIndexesLoop(s, indexes, level, 1, 1)

\* gsHTensorBasis::makeCompressed()
RECURSIVE makeCompressed(_)
makeCompressed(s) ==
    IF s.offset[2] = 0
    THEN makeCompressed([s EXCEPT !.bases = DropFirst(s.bases),
                                  !.tree = decrementLevel(s.tree),
                                  !.xmatrix = DropFirst(s.xmatrix),
                                  !.offset = DropFirst(s.offset)])
    ELSE s

\* gsHTensorBasis::activeBoundaryFunctionsOfLevel(level, s, actives) and
\* tensorLevel(level): what they do to the basis
activeBoundaryFunctionsOfLevel(s, level) == needLevel(s, level)

(***************************************************************************)
(* gsHDomainBoundaryIterator<T,d>: the iterator over the elements at one   *)
(* side of the domain. An iterator is a record of its side, the place of   *)
(* m_leaf in the sequence of the leaves of the tree (one past the last     *)
(* when the leaf iterator is at its end), m_curElement and m_meshEnd as    *)
(* offsets from m_meshStart, m_isGood of gsDomainIterator, and whether the *)
(* iterator has read m_breaks outside its entries.                         *)
(***************************************************************************)

\* gsHDomain::beginLeafIterator() and next(): the leaves in the order of the
\* tree, here by their lower corners, the last direction first.
\* (LeafBefore, LeafSeqOf, LeafSeq)
LeafBefore(a, b) ==
    \E j \in Dirs : /\ a.lo[j] < b.lo[j]
                    /\ \A i \in Dirs : i > j => a.lo[i] = b.lo[i]

RECURSIVE LeafSeqOf(_)
LeafSeqOf(leaves) ==
    IF leaves = {} THEN << >>
    ELSE LET first == CHOOSE a \in leaves : \A b \in leaves \ { a } : LeafBefore(a, b)
         IN  << first >> \o LeafSeqOf(leaves \ { first })

LeafSeq(t) == LeafSeqOf(t.leaves)

\* The leaf iterator's lowerCorner() and upperCorner(): the corners of the
\* leaf in indices of the level of the leaf.
leafCorner(c, level) == Vec(LAMBDA j : c[j] \div Pow2(IndexLevel - level))

\* gsHTensorBasis::tensorLevel(i)
tensorLevel(s, i) == needLevel(s, i).bases[i + 1]

\* leafOnBoundary that takes every leaf to be at the side.
leafOnBoundary_AnyLeaf(s, leaf, side) == TRUE

\* gsHDomainBoundaryIterator::leafOnBoundary()
leafOnBoundary(s, leaf, side) ==
    LET dir == sideDirection(side) + 1
    IN  IF sideParameter(side) = 1
        THEN leafCorner(leaf.hi, leaf.level)[dir]
                 = uSize(tensorLevel(s, leaf.level)[dir]) - 1
        ELSE leafCorner(leaf.lo, leaf.level)[dir] = 0

\* updateLeaf: m_meshEnd - m_meshStart, the number of elements of the leaf
\* in every direction, one in the direction of the side.
meshEndOf(leaf, side) ==
    LET lower == leafCorner(leaf.lo, leaf.level)
        upper == leafCorner(leaf.hi, leaf.level)
    IN  Vec(LAMBDA dim : IF dim = sideDirection(side) + 1 THEN 1
                         ELSE upper[dim] - lower[dim])

\* The first leaf at the side among the leaves from..end of the tree, one
\* past the last leaf when there is none.
leafFrom(s, side, from) ==
    LET leaves == LeafSeq(s.tree)
        at     == { n \in from..Len(leaves) : leafOnBoundary(s, leaves[n], side) }
    IN  IF at = {} THEN Len(leaves) + 1 ELSE SetMin(at)

\* gsHDomainBoundaryIterator::initLeaf(tree): m_isGood is not written
initLeaf(s, it) ==
    LET n == leafFrom(s, it.side, 1)
    IN  [it EXCEPT !.m_leaf = n,
                   !.m_curElement = Vec(LAMBDA dim : 0),
                   !.m_meshEnd = meshEndOf(LeafSeq(s.tree)[n], it.side)]

\* gsHDomainBoundaryIterator(hbs, s): gsDomainIterator sets m_isGood
iterConstruct(s, side) ==
    initLeaf(s, [side |-> side, m_leaf |-> 0, m_curElement |-> Vec(LAMBDA dim : 0),
                 m_meshEnd |-> Vec(LAMBDA dim : 0), m_isGood |-> TRUE,
                 undefined |-> FALSE])

\* gsHDomainBoundaryIterator::nextLeaf(): the value returned is m_isGood
nextLeaf(s, it) ==
    LET n == leafFrom(s, it.side, it.m_leaf + 1)
    IN  IF n <= Len(LeafSeq(s.tree))
        THEN [it EXCEPT !.m_leaf = n,
                        !.m_curElement = Vec(LAMBDA dim : 0),
                        !.m_meshEnd = meshEndOf(LeafSeq(s.tree)[n], it.side),
                        !.m_isGood = TRUE]
        ELSE [it EXCEPT !.m_leaf = n, !.m_isGood = FALSE]

\* nextLexicographic(cur, start, end) as it writes cur: the coordinate that
\* reaches its end is set back to the start, the last one is left at its
\* end and the function returns false.
RECURSIVE lexStep(_, _, _)
lexStep(cur, end, i) ==
    IF cur[i] + 1 = end[i]
    THEN IF i = Dim THEN [cur |-> [cur EXCEPT ![i] = cur[i] + 1], ok |-> FALSE]
         ELSE lexStep([cur EXCEPT ![i] = 0], end, i + 1)
    ELSE [cur |-> [cur EXCEPT ![i] = cur[i] + 1], ok |-> TRUE]

\* next() and next(increment) after their calls of nextLexicographic:
\* updateElement, which reads the breaks at m_curElement and one after it,
\* or nextLeaf
afterSteps(s, it, r) ==
    IF r.ok
    THEN [it EXCEPT !.m_curElement = r.cur, !.m_isGood = TRUE,
                    !.undefined = \E dim \in Dirs : r.cur[dim] >= it.m_meshEnd[dim]]
    ELSE nextLeaf(s, [it EXCEPT !.m_curElement = r.cur])

\* gsHDomainBoundaryIterator::next()
iterNext(s, it) == afterSteps(s, it, lexStep(it.m_curElement, it.m_meshEnd, 1))

\* next(increment), lines 236-237: the calls of nextLexicographic, the value
\* of the last one kept
RECURSIVE lexSteps(_, _, _)
lexSteps(r, end, increment) ==
    IF increment <= 0 THEN r ELSE lexSteps(lexStep(r.cur, end, 1), end, increment - 1)

\* gsHDomainBoundaryIterator::next(increment)
iterNextBy(s, it, increment) ==
    afterSteps(s, it, lexSteps([cur |-> it.m_curElement, ok |-> it.m_isGood],
                               it.m_meshEnd, increment))

\* gsHDomainBoundaryIterator::reset()
iterReset(s, it) == initLeaf(s, it)

(***************************************************************************)
(* Calls with arguments the assertions at the head of a function reject.   *)
(* GISMO_ASSERT(cond, message) ends the call with a fatal error when cond  *)
(* does not hold; in a build with NDEBUG the macro is empty, and the check *)
(* of the corners in refine is left out by #ifndef NDEBUG. A call gives    *)
(* the object it leaves and whether it has failed.                         *)
(***************************************************************************)

\* refine(boxes) reads the first d rows of the columns 2i and 2i + 1 of the
\* matrix boxes, for i < boxes.cols() / 2 (lines 374-400).
BoxesOfMatrix(mat) ==
    AsTuple([i \in 1..(Len(mat.cols) \div 2) |->
                [lo |-> Vec(LAMBDA j : mat.cols[2 * i - 1][j]),
                 hi |-> Vec(LAMBDA j : mat.cols[2 * i][j])]])

\* The assertions of refine(boxes), lines 357-372
refineAsserts(s, mat) ==
    LET para == support(s)
    IN  /\ mat.rows = Dim
        /\ Len(mat.cols) % 2 = 0
        /\ \A i \in 1..(Len(mat.cols) \div 2) : \A j \in Dirs :
               /\ para[j][1] <= mat.cols[2 * i - 1][j]
               /\ para[j][2] >= mat.cols[2 * i][j]

\* refine(boxes) whose assertions come after the refinement.
refine_checked_AssertsLast(s, mat, ndebug) ==
    [s |-> refine(s, BoxesOfMatrix(mat)), failed |-> ~ndebug /\ ~refineAsserts(s, mat)]

\* gsHTensorBasis::refine(boxes) with its assertions
refine_checked(s, mat, ndebug) ==
    IF ~ndebug /\ ~refineAsserts(s, mat) THEN [s |-> s, failed |-> TRUE]
    ELSE [s |-> refine(s, BoxesOfMatrix(mat)), failed |-> FALSE]

\* refineElements reads boxes.size() / (2d + 1) tuples (line 429).
TuplesOfVector(boxes) == SubSeq(boxes, 1, (2 * Dim + 1) * (Len(boxes) \div (2 * Dim + 1)))

\* gsHTensorBasis::refineElements(boxes) with its assertion
refineElements_checked(s, boxes, ndebug) ==
    IF ~ndebug /\ Len(boxes) % (2 * Dim + 1) # 0 THEN [s |-> s, failed |-> TRUE]
    ELSE [s |-> refineElements(s, TuplesOfVector(boxes)), failed |-> FALSE]

\* gsHTensorBasis::uniformRefine(numKnots, mul) with its assertions; the code
\* after them does not read numKnots.
uniformRefine_checked(s, numKnots, mul, ndebug) ==
    IF ~ndebug /\ ~(numKnots = 1 /\ getMaxInsLevel(s.tree) < Len(s.bases))
    THEN [s |-> s, failed |-> TRUE]
    ELSE [s |-> uniformRefine(s, mul), failed |-> FALSE]

(***************************************************************************)
(* The inputs of the model.                                                *)
(***************************************************************************)

\* An open knot vector of the given degree over n elements of width Unit.
RECURSIVE Breaks(_, _)
Breaks(from, n) == IF n <= 0 THEN << >> ELSE << from >> \o Breaks(from + Unit, n - 1)
OpenKnots(deg, n) ==
    [knots |-> Copies(0, deg + 1) \o Breaks(Unit, n - 1) \o Copies(n * Unit, deg + 1),
     deg   |-> deg]

\* The tensor bases a hierarchical basis is constructed from: degree 1,
\* two elements in the first direction and one in the second.
InitialBases == { << OpenKnots(1, 2), OpenKnots(1, 1) >> }

\* Parametric boxes given to refine: a box from the corner of the domain to
\* a point strictly inside cells of every level, a box of zero width in the
\* interior, a box from a point strictly inside cells of every level to the
\* far corner of the domain, and a box of zero width at the lower end of the
\* first direction.
Q == Unit \div 4
ParamBoxes ==
    { [lo |-> << 0, 0 >>,         hi |-> << 2 * Q + 1, 2 * Q + 1 >>],
      [lo |-> << 5 * Q, 3 * Q >>, hi |-> << 5 * Q, 3 * Q >>],
      [lo |-> << Q + 1, 1 >>,     hi |-> << 2 * Unit, Unit >>],
      [lo |-> << 0, 3 * Q >>,     hi |-> << 0, 3 * Q >>] }

\* Matrices refine rejects: one row too many, a column without its pair, a
\* second corner beyond the upper end of the domain.
InvalidMatrices ==
    { [rows |-> Dim + 1, cols |-> << << 0, 0, 0 >>, << 2 * Q + 1, 2 * Q + 1, 2 * Q + 1 >> >>],
      [rows |-> Dim, cols |-> << << 0, 0 >>, << 2 * Q + 1, 2 * Q + 1 >>, << Q + 1, 1 >> >>],
      [rows |-> Dim, cols |-> << << 0, 0 >>, << 3 * Unit, 2 * Q + 1 >> >>] }

\* Vectors refineElements rejects: a tuple and one more entry, and less than
\* a tuple.
InvalidVectors == { << 1, 0, 0, 2, 2, 1 >>, << 1, 0, 0, 2 >> }

\* Values of numKnots uniformRefine rejects.
InvalidNumKnots == { 0, 2 }

\* The tensor basis of the object the concurrent calls run on: degree 1 and
\* one element of width 4 * Unit in every direction.
WideBases ==
    { Vec(LAMBDA j : [knots |-> << 0, 0, 4 * Unit, 4 * Unit >>, deg |-> 1]) }

\* Points given to active_into: no coordinate of them is a knot of a level.
QueryPoints == { << 1, 1 >>, << 2 * Q + 1, 2 * Q + 1 >>, << 5 * Q + 1, 3 * Q + 1 >> }

\* Index boxes (level, lower corner, upper corner) given to refineElements.
ElementBoxes ==
    { << 1, 0, 0, 2, 2 >>,
      << 1, 1, 0, 2, 1 >>,
      << 2, 2, 1, 5, 3 >> }

\* The sequences of 1..n elements of S.
RECURSIVE SeqsUpTo(_, _)
SeqsUpTo(S, n) ==
    IF n <= 0 THEN { }
    ELSE { << x >> : x \in S }
           \cup { ss \o << x >> : ss \in SeqsUpTo(S, n - 1), x \in S }

RECURSIVE Flatten(_)
Flatten(ss) == IF Len(ss) = 0 THEN << >> ELSE Head(ss) \o Flatten(Tail(ss))

\* The members of the object; the last public operation and its argument,
\* the number of operations so far, and whether update_structure was the
\* last to write the object.
VARIABLES m_tree, m_bases, m_xmatrix, m_xmatrix_offset, m_deg,
          lastOp, lastArg, nOps, upToDate

\* The calls of needLevel that threads run on the object without a lock:
\* for every thread the place it has reached and the locals of the call; and
\* whether a call has started while another was running.
VARIABLES calls, overlapped

\* A boundary iterator over the object, the elements it has stood at since
\* its construction or its last reset, and the calls made on it: how many
\* of next(), of next(increment) and of reset(), the last one and its
\* increment.
VARIABLES iter, visited, iterCalls

vars == << m_tree, m_bases, m_xmatrix, m_xmatrix_offset, m_deg,
           lastOp, lastArg, nOps, upToDate, calls, overlapped,
           iter, visited, iterCalls >>

NoIterator == [side |-> 0]
NoIterCalls == [next |-> 0, nextBy |-> 0, reset |-> 0, last |-> "none", increment |-> 0]

Threads == { 1, 2 }
NoCall == [pc |-> "idle", maxLevel |-> 0, extraLevels |-> 0, i |-> 0, next_basis |-> << >>]

\* The operations that end with update_structure; refineSide runs it once
\* for each of its levels, so not at all for none.
UpdateOps ==
    { "construct", "refine", "refine_refExt", "refineElements", "refineSide", "uniformRefine",
      "degreeElevate", "degreeIncrease", "increaseMultiplicity" }
EndsUpToDate(op, arg) ==
    IF op = "refineSide" /\ arg[2] = 0 THEN upToDate ELSE op \in UpdateOps

\* The object as a record, and the assignment of a record to the object.
This == [tree |-> m_tree, bases |-> m_bases, xmatrix |-> m_xmatrix,
         offset |-> m_xmatrix_offset, deg |-> m_deg]

Becomes(s) ==
    /\ m_tree' = s.tree
    /\ m_bases' = s.bases
    /\ m_xmatrix' = s.xmatrix
    /\ m_xmatrix_offset' = s.offset
    /\ m_deg' = s.deg

\* The tree and the tensor bases of pre stay on the model's grid: no level
\* is finer than the finest grid, no knot is repeated more than degree + 1
\* times, and no degree is above the largest.
WithinBounds(pre) ==
    LET p == needLevel(pre, getMaxInsLevel(pre.tree))
    IN  /\ getMaxInsLevel(p.tree) <= MaxFine
        /\ \A i \in 1..Len(p.bases) : \A j \in Dirs : MinSpan(p.bases[i][j]) >= 2
        /\ \A i \in 1..Len(p.bases) : \A j \in Dirs :
              \A u \in Range(p.bases[i][j].knots) :
                  multiplicity(p.bases[i][j], u) <= p.bases[i][j].deg + 1
        /\ \A j \in Dirs : p.deg[j] <= MaxDeg

\* One public operation: the object becomes s, and the operation and its
\* argument are remembered. pre carries the tree and the tensor bases of s.
Call(op, arg, pre, s) ==
    /\ nOps < MaxOps
    /\ lastOp # "GISMO_ASSERT"
    /\ WithinBounds(pre)
    /\ Becomes(s)
    /\ lastOp' = op
    /\ lastArg' = arg
    /\ nOps' = nOps + 1
    /\ upToDate' = EndsUpToDate(op, arg)
    /\ UNCHANGED << calls, overlapped, iter, visited, iterCalls >>

Init ==
    \E tbasis \in InitialBases :
        LET s == construct(tbasis)
        IN  /\ m_tree = s.tree
            /\ m_bases = s.bases
            /\ m_xmatrix = s.xmatrix
            /\ m_xmatrix_offset = s.offset
            /\ m_deg = s.deg
            /\ lastOp = "construct"
            /\ lastArg = << >>
            /\ nOps = 0
            /\ upToDate = TRUE
            /\ calls = [t \in Threads |-> NoCall]
            /\ overlapped = FALSE
            /\ iter = NoIterator
            /\ visited = << >>
            /\ iterCalls = NoIterCalls

Refine ==
    \E boxes \in SeqsUpTo(ParamBoxes, MaxBoxes) :
        Call("refine", boxes, refineLoop(This, boxes), refine(This, boxes))

RefineWithExtension ==
    \E boxes \in SeqsUpTo(ParamBoxes, MaxBoxes), refExt \in 0..MaxExt,
       oob \in (IF getMaxInsLevel(m_tree) >= Len(m_bases) THEN 0..(MaxFine - 1) ELSE { 0 }) :
        Call("refine_refExt", << refExt, boxes >>,
             IF refExt = 0 THEN refineLoop(This, boxes)
             ELSE LET r == refineExtLoop(This, boxes, refExt, oob, << >>)
                  IN  refineElementsLoop(r.s, r.refVector, 0),
             refine_refExt(This, boxes, refExt, oob))

RefineElements ==
    \E bs \in SeqsUpTo(ElementBoxes, MaxBoxes) :
        Call("refineElements", Flatten(bs),
             refineElementsLoop(This, Flatten(bs), 0),
             refineElements(This, Flatten(bs)))

RefineSide ==
    \E side \in 1..(2 * Dim), lvl \in 0..MaxSideLvl :
        Call("refineSide", << side, lvl >>,
             refineLoop(This, [n \in 1..lvl |-> sideBox(This, side)]),
             refineSide(This, side, lvl))

UniformRefine ==
    \E mul \in 1..2 :
        /\ getMaxInsLevel(m_tree) < Len(m_bases)
        /\ Len(m_bases) >= 2
        /\ Call("uniformRefine", << 1, mul >>,
                uniformRefineLevels(This, mul), uniformRefine(This, mul))

DegreeElevate ==
    \E dir \in { -1, 0 } :
        Call("degreeElevate", << 1, dir >>,
             degreeElevateLevels(This, 1, dir), degreeElevate(This, 1, dir))

DegreeIncrease ==
    \E dir \in { -1, 1 } :
        Call("degreeIncrease", << 1, dir >>,
             degreeIncreaseLevels(This, 1, dir), degreeIncrease(This, 1, dir))

IncreaseMultiplicity ==
    \E lvl \in 0..1, knotValue \in { Unit, Unit \div 2 } :
        /\ lvl < Len(m_bases)
        /\ Call("increaseMultiplicity", << lvl, 0, knotValue, 1 >>,
                increaseMultiplicityLevels(This, lvl, 0, knotValue, 1),
                increaseMultiplicity(This, lvl, 0, knotValue, 1))

RefineElementsWithTransfer ==
    \E bs \in SeqsUpTo(ElementBoxes, 1) :
        Call("refineElements_withTransfer", Flatten(bs),
             refineElementsLoop(This, Flatten(bs), 0),
             refineElements_withTransfer(This, Flatten(bs)))

RefineElementsWithCoefs2 ==
    \E bs \in SeqsUpTo(ElementBoxes, 1) :
        Call("refineElements_withCoefs2", Flatten(bs),
             needLevel(refineElementsLoop(This, Flatten(bs), 0), Len(m_xmatrix)),
             refineElements_withCoefs2(This, Flatten(bs)))

Transfer ==
    \E n \in 1..Len(m_xmatrix) :
        Call("transfer", << n >>, needLevel(This, n), transfer(This, Front(m_xmatrix, n)))

Transfer2 ==
    \E n \in 1..Len(m_xmatrix) :
        Call("transfer2", << n >>, needLevel(This, n), transfer2(This, Front(m_xmatrix, n)))

MakeCompressed ==
    Call("makeCompressed", << >>, This, makeCompressed(This))

ActiveBoundaryFunctionsOfLevel ==
    \E level \in 0..MaxFine :
        Call("activeBoundaryFunctionsOfLevel", << level >>,
             needLevel(This, level), activeBoundaryFunctionsOfLevel(This, level))

\* A call that an assertion has ended: the process stops with the object s.
Fails(op, arg, s) ==
    /\ nOps < MaxOps
    /\ lastOp # "GISMO_ASSERT"
    /\ Becomes(s)
    /\ lastOp' = "GISMO_ASSERT"
    /\ lastArg' = << op, arg >>
    /\ nOps' = nOps + 1
    /\ UNCHANGED << upToDate, calls, overlapped, iter, visited, iterCalls >>

RefineInvalid ==
    \E mat \in InvalidMatrices, ndebug \in BOOLEAN :
        /\ nOps < MaxOps
        /\ LET r == refine_checked(This, mat, ndebug)
           IN  IF r.failed THEN Fails("refine", mat, r.s)
               ELSE Call("refine", BoxesOfMatrix(mat),
                         refineLoop(This, BoxesOfMatrix(mat)), r.s)

RefineElementsInvalid ==
    \E boxes \in InvalidVectors, ndebug \in BOOLEAN :
        /\ nOps < MaxOps
        /\ LET r == refineElements_checked(This, boxes, ndebug)
           IN  IF r.failed THEN Fails("refineElements", boxes, r.s)
               ELSE Call("refineElements", boxes,
                         refineElementsLoop(This, TuplesOfVector(boxes), 0), r.s)

UniformRefineInvalid ==
    \E numKnots \in InvalidNumKnots, mul \in 1..2, ndebug \in BOOLEAN :
        /\ nOps < MaxOps
        /\ getMaxInsLevel(m_tree) < Len(m_bases)
        /\ Len(m_bases) >= 2
        /\ LET r == uniformRefine_checked(This, numKnots, mul, ndebug)
           IN  IF r.failed THEN Fails("uniformRefine", << numKnots, mul >>, r.s)
               ELSE Call("uniformRefine", << numKnots, mul >>,
                         uniformRefineLevels(This, mul), r.s)

Next ==
    \/ Refine
    \/ RefineWithExtension
    \/ RefineElements
    \/ RefineSide
    \/ UniformRefine
    \/ DegreeElevate
    \/ DegreeIncrease
    \/ IncreaseMultiplicity
    \/ RefineElementsWithTransfer
    \/ RefineElementsWithCoefs2
    \/ Transfer
    \/ Transfer2
    \/ MakeCompressed
    \/ ActiveBoundaryFunctionsOfLevel

Spec == Init /\ [][Next]_vars

(***************************************************************************)
(* Calls of needLevel by two threads, no lock held. A step is one read or  *)
(* one write of m_bases; needLevel is const and m_bases mutable, so const  *)
(* queries such as activeBoundaryFunctionsOfLevel run these steps too.     *)
(***************************************************************************)

InitConcurrent ==
    \E tbasis \in WideBases :
        LET s == construct(tbasis)
        IN  /\ m_tree = s.tree
            /\ m_bases = s.bases
            /\ m_xmatrix = s.xmatrix
            /\ m_xmatrix_offset = s.offset
            /\ m_deg = s.deg
            /\ lastOp = "construct"
            /\ lastArg = << >>
            /\ nOps = 0
            /\ upToDate = TRUE
            /\ calls = [t \in Threads |-> NoCall]
            /\ overlapped = FALSE
            /\ iter = NoIterator
            /\ visited = << >>
            /\ iterCalls = NoIterCalls

Object == << m_tree, m_xmatrix, m_xmatrix_offset, m_deg, lastOp, lastArg, nOps, upToDate,
             iter, visited, iterCalls >>
Running(t) == calls[t].pc \in { "loop", "cloned" }

\* needLevel(maxLevel), line 869: the thread reads m_bases.size()
NeedLevelEnter(t) ==
    \E maxLevel \in 0..MaxNeed :
        /\ calls[t].pc = "idle"
        /\ calls' = [calls EXCEPT ![t] =
                        [pc |-> "loop", maxLevel |-> maxLevel,
                         extraLevels |-> extraLevels(maxLevel, Len(m_bases)),
                         i |-> 0, next_basis |-> << >>]]
        /\ overlapped' = (overlapped \/ \E o \in Threads \ { t } : Running(o))
        /\ UNCHANGED << m_bases, Object >>

\* needLevel, lines 871-874: the test of the loop and, when it passes, the
\* clone of m_bases.back() refined once
NeedLevelClone(t) ==
    /\ calls[t].pc = "loop"
    /\ calls' = [calls EXCEPT ![t] =
                    IF calls[t].i < calls[t].extraLevels
                    THEN [@ EXCEPT !.pc = "cloned",
                                   !.next_basis = tbUniformRefine(m_bases[Len(m_bases)], 1)]
                    ELSE [@ EXCEPT !.pc = "done"]]
    /\ UNCHANGED << m_bases, overlapped, Object >>

\* needLevel, line 875: m_bases.push_back(next_basis), and ++i
NeedLevelPushBack(t) ==
    /\ calls[t].pc = "cloned"
    /\ m_bases' = Append(m_bases, calls[t].next_basis)
    /\ calls' = [calls EXCEPT ![t] = [@ EXCEPT !.pc = "loop", !.i = @ + 1,
                                               !.next_basis = << >>]]
    /\ UNCHANGED << overlapped, Object >>

\* Two push_back at the same time are a data race: among what it can give,
\* both threads write the same new element of the array and one of the two
\* tensor bases is lost.
NeedLevelRacingPushBack ==
    \E t \in Threads :
        /\ \A o \in Threads : calls[o].pc = "cloned"
        /\ m_bases' = Append(m_bases, calls[t].next_basis)
        /\ calls' = [o \in Threads |-> [calls[o] EXCEPT !.pc = "loop", !.i = @ + 1,
                                                        !.next_basis = << >>]]
        /\ UNCHANGED << overlapped, Object >>

NextConcurrent ==
    \/ \E t \in Threads : NeedLevelEnter(t)
    \/ \E t \in Threads : NeedLevelClone(t)
    \/ \E t \in Threads : NeedLevelPushBack(t)
    \/ NeedLevelRacingPushBack

SpecConcurrent == InitConcurrent /\ [][NextConcurrent]_vars

(***************************************************************************)
(* A boundary iterator over a basis that refineElements has refined.       *)
(***************************************************************************)

\* The element the iterator stands at: the level of its leaf and m_lower
\* and m_upper of updateElement, which are equal in the direction of the
\* side.
ElementOf(s, it) ==
    LET leaf  == LeafSeq(s.tree)[it.m_leaf]
        lower == leafCorner(leaf.lo, leaf.level)
        upper == leafCorner(leaf.hi, leaf.level)
        tb    == tensorLevel(s, leaf.level)
        dir   == sideDirection(it.side) + 1
        par   == sideParameter(it.side)
        brk(dim, n) == IF dim = dir
                       THEN uValue(tb[dim], (IF par = 1 THEN upper[dim] - 1 ELSE lower[dim]) + n)
                       ELSE uValue(tb[dim], lower[dim] + n)
    IN  [level   |-> leaf.level,
         m_lower |-> Vec(LAMBDA dim : IF dim = dir THEN brk(dim, par)
                                      ELSE brk(dim, it.m_curElement[dim])),
         m_upper |-> Vec(LAMBDA dim : IF dim = dir THEN brk(dim, par)
                                      ELSE brk(dim, it.m_curElement[dim] + 1))]

\* The elements visited, with the one the iterator has come to.
Visit(s, it, seen) ==
    IF it.m_isGood /\ ~it.undefined THEN Append(seen, ElementOf(s, it)) ELSE seen

\* Boxes of refineElements whose faces lie on knots of the level below, and
\* on knots of level 0 where they are sunk into a region of level 0.
IteratorBoxes == { << 1, 0, 0, 2, 2 >>, << 1, 2, 0, 4, 2 >>,
                   << 2, 0, 0, 2, 2 >>, << 2, 4, 0, 8, 4 >>, << 2, 2, 2, 4, 4 >> }

\* Every leaf is a union of cells of its level: its corners in indices of
\* its level, which the iterator reads, are its corners.
LeavesAligned(t) ==
    \A leaf \in t.leaves : \A j \in Dirs :
        /\ leaf.lo[j] % Pow2(IndexLevel - leaf.level) = 0
        /\ leaf.hi[j] % Pow2(IndexLevel - leaf.level) = 0

InitIterator ==
    \E tbasis \in InitialBases, bs \in SeqsUpTo(IteratorBoxes, MaxBoxes), side \in 1..(2 * Dim) :
        LET s == refineElements(construct(tbasis), Flatten(bs))
        IN  /\ WithinBounds(s)
            /\ LeavesAligned(s.tree)
            /\ m_tree = s.tree
            /\ m_bases = s.bases
            /\ m_xmatrix = s.xmatrix
            /\ m_xmatrix_offset = s.offset
            /\ m_deg = s.deg
            /\ lastOp = "refineElements"
            /\ lastArg = Flatten(bs)
            /\ nOps = 1
            /\ upToDate = TRUE
            /\ calls = [t \in Threads |-> NoCall]
            /\ overlapped = FALSE
            /\ iter = iterConstruct(s, side)
            /\ visited = << ElementOf(s, iterConstruct(s, side)) >>
            /\ iterCalls = [NoIterCalls EXCEPT !.last = "construct"]

Basis == << m_tree, m_bases, m_xmatrix, m_xmatrix_offset, m_deg,
            lastOp, lastArg, nOps, upToDate, calls, overlapped >>

\* The iterator can be stepped: it has a leaf and its reads were defined.
CanStep == ~iter.undefined /\ iter.m_leaf <= Len(LeafSeq(m_tree))

IterNext ==
    /\ CanStep
    /\ iter' = iterNext(This, iter)
    /\ visited' = Visit(This, iter', visited)
    /\ iterCalls' = [iterCalls EXCEPT !.next = @ + 1, !.last = "next", !.increment = 0]
    /\ UNCHANGED Basis

IterNextBy ==
    \E increment \in 1..MaxIncrement :
        /\ CanStep
        /\ iterCalls.nextBy = 0
        /\ iter' = iterNextBy(This, iter, increment)
        /\ visited' = Visit(This, iter', visited)
        /\ iterCalls' = [iterCalls EXCEPT !.nextBy = @ + 1, !.last = "nextBy",
                                           !.increment = increment]
        /\ UNCHANGED Basis

IterReset ==
    /\ ~iter.undefined
    /\ iterCalls.reset = 0
    /\ iter' = iterReset(This, iter)
    /\ visited' = Visit(This, iter', << >>)
    /\ iterCalls' = [iterCalls EXCEPT !.reset = @ + 1, !.last = "reset", !.increment = 0]
    /\ UNCHANGED Basis

NextIterator ==
    \/ IterNext
    \/ IterNextBy
    \/ IterReset

SpecIterator == InitIterator /\ [][NextIterator]_vars

\* The operations together with the calls the assertions reject.
NextWithInvalidCalls ==
    \/ Next
    \/ RefineInvalid
    \/ RefineElementsInvalid
    \/ UniformRefineInvalid

SpecWithInvalidCalls == Init /\ [][NextWithInvalidCalls]_vars

(***************************************************************************)
(* Properties of the offsets and of the characteristic matrices.           *)
(***************************************************************************)

RECURSIVE SumOfSizes(_)
SumOfSizes(xmatrix) ==
    IF Len(xmatrix) = 0 THEN 0
    ELSE Cardinality(Range(Head(xmatrix))) + SumOfSizes(Tail(xmatrix))

\* C1: after the construction and after every operation that ends with
\* update_structure the offsets start with 0, every next offset adds the
\* number of active functions of its level, so the offsets never decrease,
\* and size() is the last offset, the sum of the sizes of all active sets.
C1_OffsetsArePrefixSums ==
    upToDate =>
        /\ Len(m_xmatrix_offset) = Len(m_xmatrix) + 1
        /\ m_xmatrix_offset[1] = 0
        /\ \A i \in 1..Len(m_xmatrix) :
              /\ m_xmatrix_offset[i + 1]
                   = m_xmatrix_offset[i] + Cardinality(Range(m_xmatrix[i]))
              /\ m_xmatrix_offset[i] <= m_xmatrix_offset[i + 1]
        /\ size(This) = m_xmatrix_offset[Len(m_xmatrix_offset)]
        /\ size(This) = SumOfSizes(m_xmatrix)

\* A refinement has left active functions on two levels, and the offsets
\* count both.
C1_Witness ==
    /\ lastOp = "refineElements"
    /\ Len(m_xmatrix[1]) > 0
    /\ Len(m_xmatrix[2]) > 0
    /\ m_xmatrix_offset[3] = Len(m_xmatrix[1]) + Len(m_xmatrix[2])
    /\ size(This) > Len(m_xmatrix[1])

\* The tensor indices of the functions of a tensor basis, and the corners of
\* the support of the function k in unique knot indices.
TensorIndices(tb) ==
    { k \in [Dirs -> 0..SetMax({ kvSize(tb[j]) : j \in Dirs })] :
          \A j \in Dirs : k[j] < kvSize(tb[j]) }
SupportLow(tb, k) == Vec(LAMBDA j : uIndexOfKnot(tb[j], k[j]))
SupportUpp(tb, k) == Vec(LAMBDA j : uIndexOfKnot(tb[j], k[j] + tb[j].deg + 1))

\* C2: after update_structure the flat index of a tensor index k of level i
\* is in the active set of level i exactly when query3 on the support of k
\* returns i, the active sets hold nothing else, and they are empty above
\* the maximum inserted level of the tree.
C2_ActiveIffQueryReturnsLevel ==
    upToDate =>
        /\ Len(m_xmatrix) = Len(m_bases)
        /\ \A i \in 1..Len(m_bases) :
              LET tb == m_bases[i]
              IN  /\ \A k \in TensorIndices(tb) :
                        (tbIndex(tb, k) \in Range(m_xmatrix[i]))
                          <=> (query3(m_tree, SupportLow(tb, k), SupportUpp(tb, k), i - 1)
                                 = i - 1)
                  /\ Range(m_xmatrix[i]) \subseteq { tbIndex(tb, k) : k \in TensorIndices(tb) }
                  /\ (i - 1 > getMaxInsLevel(m_tree)) => m_xmatrix[i] = << >>

\* A refinement has made functions of level 0 inactive and functions of
\* level 1 active, and the level above the maximum inserted level is empty.
C2_Witness ==
    /\ lastOp = "refineElements"
    /\ getMaxInsLevel(m_tree) = 1
    /\ Len(m_xmatrix) = 3
    /\ Len(m_xmatrix[1]) < Cardinality(TensorIndices(m_bases[1]))
    /\ Len(m_xmatrix[2]) > 0
    /\ m_xmatrix[3] = << >>

\* C3: in every state between public operations the active-set array has as
\* many levels as the array of tensor bases.
C3_SameNumberOfLevels == Len(m_xmatrix) = Len(m_bases)

\* C4: after every public operation there is a tensor basis for every level
\* up to the maximum inserted level of the tree.
C4_BasisForEveryInsertedLevel == Len(m_bases) > getMaxInsLevel(m_tree)

(***************************************************************************)
(* Properties of the tree under the insertions.                            *)
(***************************************************************************)

RECURSIVE VolumeFrom(_, _, _)
VolumeFrom(lo, hi, j) ==
    IF j > Dim THEN 1 ELSE (hi[j] - lo[j]) * VolumeFrom(lo, hi, j + 1)
Volume(lo, hi) == VolumeFrom(lo, hi, 1)

RECURSIVE VolumeOfLeaves(_)
VolumeOfLeaves(leaves) ==
    IF leaves = {} THEN 0
    ELSE LET l == CHOOSE x \in leaves : TRUE
         IN  Volume(l.lo, l.hi) + VolumeOfLeaves(leaves \ { l })

\* Every cell of the index domain lies in exactly one leaf: the leaves are
\* boxes of the domain, no two of them meet, and together they fill it.
LeavesPartition(t) ==
    /\ \A l \in t.leaves : \A j \in Dirs :
          0 <= l.lo[j] /\ l.lo[j] < l.hi[j] /\ l.hi[j] <= t.upperIndex[j]
    /\ \A l1 \in t.leaves : \A l2 \in t.leaves :
          l1 # l2 => ~Overlaps(l1, l2.lo, l2.hi)
    /\ VolumeOfLeaves(t.leaves) = Volume(Vec(LAMBDA j : 0), t.upperIndex)

\* The operations that insert boxes, and those of them that take boxes of a
\* given level.
InsertingOps ==
    { "refine", "refineElements", "refineSide",
      "refineElements_withTransfer", "refineElements_withCoefs2" }
ElementOps ==
    { "refineElements", "refineElements_withTransfer", "refineElements_withCoefs2" }

\* No cell of the tree t has a lower level in the tree t2.
NoCellLowered(t, t2) ==
    \A l \in t.leaves : \A l2 \in t2.leaves :
        Overlaps(l, l2.lo, l2.hi) => l2.level >= l.level

\* Every leaf of t2 inside a box of the argument of refineElements has at
\* least the level of the box.
RaisedToBoxLevels(t2, boxes) ==
    \A i \in 0..((Len(boxes) \div (2 * Dim + 1)) - 1) :
        LET lvl == boxes[i * (2 * Dim + 1) + 1]
            i1  == Vec(LAMBDA j : boxes[(i * (2 * Dim + 1)) + j + 1])
            i2  == Vec(LAMBDA j : boxes[(i * (2 * Dim + 1)) + Dim + j + 1])
        IN  \A l2 \in t2.leaves :
                Overlaps(l2, local2globalIndex(i1, lvl), local2globalIndex(i2, lvl))
                    => l2.level >= lvl

\* Every leaf of t2 inside the index box that refine computes for the box has
\* a level one above the level its cells had in t.
SunkByOne(s, t2, box) ==
    LET ib == refineIndexBox(s, box)
        lo == local2globalIndex(ib.k1, Len(s.bases) - 1)
        hi == local2globalIndex(ib.k2, Len(s.bases) - 1)
    IN  \A l \in s.tree.leaves : \A l2 \in t2.leaves :
            (Overlaps(l2, lo, hi) /\ Overlaps(l, l2.lo, l2.hi))
                => l2.level = l.level + 1

\* C5: under the box insertions of refine, refineElements and refineSide the
\* leaves of the tree partition the index domain, the leaves inside an
\* inserted box of level L have at least level L (one level more than before
\* for the box of refine), and no insertion lowers the level of a cell.
C5_LeavesPartitionDomain ==
    /\ LeavesPartition(m_tree)
    /\ [][ /\ LeavesPartition(m_tree')
           /\ (lastOp' \in InsertingOps) => NoCellLowered(m_tree, m_tree')
           /\ (lastOp' \in ElementOps) => RaisedToBoxLevels(m_tree', lastArg')
           /\ (lastOp' = "refine" /\ Len(lastArg') = 1)
                 => SunkByOne(This, m_tree', lastArg'[1]) ]_vars

\* Two boxes of different levels have been inserted; the tree has leaves of
\* three levels.
C5_Witness ==
    /\ lastOp = "refineElements"
    /\ Len(lastArg) = 2 * (2 * Dim + 1)
    /\ Cardinality(m_tree.leaves) >= 5
    /\ { l.level : l \in m_tree.leaves } = { 0, 1, 2 }

(***************************************************************************)
(* Properties of transfer and of the array of tensor bases.                *)
(***************************************************************************)

\* C7: when transfer returns, the last active set is not empty, there is at
\* least one level, and the array of the active sets and the array of the
\* tensor bases have the same length: both are what they were without the
\* levels at the end whose active sets are empty.
C7_TransferPrunesBoth ==
    [][ (lastOp' \in { "transfer", "refineElements_withTransfer" }) =>
           /\ Len(m_xmatrix') >= 1
           /\ Len(m_xmatrix'[Len(m_xmatrix')]) > 0
           /\ Len(m_bases') = Len(m_xmatrix')
           /\ (lastOp' = "transfer") =>
                 /\ Len(m_xmatrix') <= Len(m_xmatrix)
                 /\ m_xmatrix' = Front(m_xmatrix, Len(m_xmatrix'))
                 /\ \A i \in (Len(m_xmatrix') + 1)..Len(m_xmatrix) : m_xmatrix[i] = << >>
                 /\ m_bases' = Front(m_bases, Len(m_bases')) ]_vars

\* transfer has dropped the empty last level of a basis refined to level 1.
C7_Witness ==
    /\ lastOp = "transfer"
    /\ nOps = 2
    /\ Len(m_bases) = 2
    /\ Len(m_xmatrix) = 2
    /\ Len(m_xmatrix[2]) > 0

\* C8: needLevel(L) leaves max(previous count, L+1) tensor bases, the
\* previous ones unchanged at the front, none appended when L+1 exist
\* already, and a second needLevel(L) changes nothing.
C8_NeedLevelExtendsOnce ==
    [][ (lastOp' = "activeBoundaryFunctionsOfLevel") =>
           LET L == lastArg'[1]
           IN  /\ Len(m_bases') = Max(Len(m_bases), L + 1)
               /\ Front(m_bases', Len(m_bases)) = m_bases
               /\ (Len(m_bases) >= L + 1) => m_bases' = m_bases
               /\ needLevel([bases |-> m_bases'], L).bases = m_bases' ]_vars

\* needLevel(3) has appended the tensor basis of level 3 to the three of the
\* construction.
C8_Witness ==
    /\ lastOp = "activeBoundaryFunctionsOfLevel"
    /\ lastArg = << 3 >>
    /\ nOps = 1
    /\ Len(m_bases) = 4

\* C9 as stated: every tensor basis is the previous one refined once
\* uniformly (the midpoint of every knot span inserted, with one multiplicity
\* for all of them, the knots of the previous level kept as they are).
C9_EachLevelRefinesPrevious ==
    \A i \in 1..(Len(m_bases) - 1) : \A j \in Dirs :
        \E mul \in 1..(MaxDeg + 1) : m_bases[i + 1][j] = kvUniformRefine(m_bases[i][j], mul)

\* C9: for consecutive levels and every direction the degrees agree, the
\* distinct knots of the finer level are those of the coarser one and the
\* midpoints of its knot spans, and no knot of the coarser level has a lower
\* multiplicity in the finer one.
C9_BreakpointsRefinePrevious ==
    \A i \in 1..(Len(m_bases) - 1) : \A j \in Dirs :
        LET coarse == m_bases[i][j]
            fine   == m_bases[i + 1][j]
        IN  /\ fine.deg = coarse.deg
            /\ UniqueOf(fine.knots) = UniqueOf(RefinedKnots(coarse.knots, 1))
            /\ \A u \in Range(coarse.knots) :
                  multiplicity(fine, u) >= multiplicity(coarse, u)

\* increaseMultiplicity at level 1 has left a level that is not the uniform
\* refinement of the level before it.
C9_Witness ==
    /\ lastOp = "increaseMultiplicity"
    /\ lastArg[1] = 1
    /\ \A mul \in 1..(MaxDeg + 1) : m_bases[2][1] # kvUniformRefine(m_bases[1][1], mul)
    /\ UniqueOf(m_bases[2][1].knots) = UniqueOf(RefinedKnots(m_bases[1][1].knots, 1))

(***************************************************************************)
(* Properties of refine(boxes).                                            *)
(***************************************************************************)

\* The cells of the tensor basis tb (by the unique indices of their lower
\* corners), and those of them whose interior meets the parametric box.
CellsOf(tb) ==
    LET n == Vec(LAMBDA j : uSize(tb[j]) - 1)
    IN  { c \in [Dirs -> 0..(SetMax(Range(n)) - 1)] : \A j \in Dirs : c[j] < n[j] }
CoveredCells(tb, box) ==
    { c \in CellsOf(tb) :
          \A j \in Dirs : /\ uValue(tb[j], c[j]) < box.hi[j]
                          /\ box.lo[j] < uValue(tb[j], c[j] + 1) }

\* C10: refine of one box sinks the region that the box covers from the
\* level L of the cell containing it to level L+1, leaves the level of the
\* cells outside the index box, and returns with the active sets and the
\* offsets rebuilt.
C10_RefineSinksCoveredRegion ==
    [][ (lastOp' = "refine" /\ Len(lastArg') = 1) =>
           LET box     == lastArg'[1]
               f       == Len(m_bases) - 1
               tb      == m_bases[f + 1]
               covered == CoveredCells(tb, box)
               ib      == refineIndexBox(This, box)
               outside == { c \in CellsOf(tb) :
                              \E j \in Dirs : c[j] < ib.k1[j] \/ c[j] >= ib.k2[j] }
           IN  /\ \A L \in 0..MaxFine :
                     (\A c \in covered : levelOf(m_tree, c, f) = L)
                        => (\A c \in covered : levelOf(m_tree', c, f) = L + 1)
               /\ \A c \in outside : levelOf(m_tree', c, f) = levelOf(m_tree, c, f)
               /\ m_xmatrix' = update_structure(This').xmatrix
               /\ m_xmatrix_offset' = update_structure(This').offset ]_vars

(***************************************************************************)
(* Refinement of a region that is at the finest level already.             *)
(***************************************************************************)

\* The leaves of the tree that the closed parametric box touches (the knots
\* of the model are the indices of level IndexLevel).
LeavesOfBox(t, box) ==
    { l \in t.leaves : \A j \in Dirs : l.lo[j] <= box.hi[j] /\ box.lo[j] <= l.hi[j] }

\* The box lies in a region of the finest level: every leaf it touches has
\* the maximum inserted level, which is also the level of the last tensor
\* basis.
InFinestRegion(s, box) ==
    /\ getMaxInsLevel(s.tree) = Len(s.bases) - 1
    /\ \A l \in LeavesOfBox(s.tree, box) : l.level = getMaxInsLevel(s.tree)

\* The number of active functions of level i (none for a level without an
\* active set).
ActiveCount(xmatrix, i) == IF i <= Len(xmatrix) THEN Len(xmatrix[i]) ELSE 0

\* C11: refine with one box that lies in a region of the finest level leaves
\* the number of active functions of every level and size() as they were.
C11_RefineOfFinestRegionIsNoOp ==
    [][ (lastOp' = "refine" /\ Len(lastArg') = 1 /\ InFinestRegion(This, lastArg'[1]))
           => /\ \A i \in 1..Max(Len(m_xmatrix), Len(m_xmatrix')) :
                    ActiveCount(m_xmatrix', i) = ActiveCount(m_xmatrix, i)
              /\ size(This') = size(This) ]_vars

(***************************************************************************)
(* Boxes that lie in one cell of the finest tensor basis.                  *)
(***************************************************************************)

\* The cell of the knot vector that holds both ends of the interval [lo, hi]
\* (the index of its lower knot), -1 when no cell does.
CellOfInterval(kv, lo, hi) ==
    LET in == { c \in 0..(uSize(kv) - 2) : uValue(kv, c) <= lo /\ hi < uValue(kv, c + 1) }
    IN  IF in = {} THEN -1 ELSE SetMin(in)

\* C12: refine with one box whose two corners lie, in every direction, in the
\* same cell a of the finest tensor basis sinks a region that is not empty:
\* the cells a-1 (where there is one) and a of every direction, between the
\* knots a-1 and a+1, go one level down, and every other cell keeps its level.
C12_DegenerateBoxIsExpanded ==
    [][ (lastOp' = "refine" /\ Len(lastArg') = 1) =>
           LET box == lastArg'[1]
               f   == Len(m_bases) - 1
               tb  == m_bases[f + 1]
               a   == Vec(LAMBDA j : CellOfInterval(tb[j], box.lo[j], box.hi[j]))
               sunk == { c \in CellsOf(tb) :
                           \A j \in Dirs : Max(a[j] - 1, 0) <= c[j] /\ c[j] <= a[j] }
           IN  (\A j \in Dirs : a[j] >= 0) =>
                   /\ sunk # {}
                   /\ \A c \in sunk : levelOf(m_tree', c, f) = levelOf(m_tree, c, f) + 1
                   /\ \A c \in CellsOf(tb) \ sunk :
                         levelOf(m_tree', c, f) = levelOf(m_tree, c, f) ]_vars

\* refine has sunk, for the second time, a box of zero width at the lower
\* end of the domain in the first direction.
C12_Witness ==
    /\ lastOp = "refine"
    /\ nOps = 2
    /\ lastArg = << [lo |-> << 0, 3 * Q >>, hi |-> << 0, 3 * Q >>] >>
    /\ getMaxInsLevel(m_tree) = 2
    /\ Cardinality(m_tree.leaves) > 1

(***************************************************************************)
(* Properties of refine(boxes, refExt).                                    *)
(***************************************************************************)

\* The last knot of the knot vector, among those with unique indices up to
\* last, that is not above v (its unique index).
LastKnotNotAbove(kv, last, v) ==
    SetMax({ 0 } \cup { i \in 0..last : uValue(kv, i) <= v })

\* The box of the tree that refine(boxes, refExt) is to fill for one
\* parametric box: its level is the level at the centre of the box plus one,
\* and its corners are the knots of that level at the corners of the box,
\* moved outwards by 2*refExt cells of that level and kept in the domain.
GrownBox(s, bases2, box, refExt) ==
    LET T  == getLevelAtPoint(s, Vec(LAMBDA j : box.lo[j] + box.hi[j]), 0) + 1
        tb == bases2[T + 1]
        k1 == Vec(LAMBDA j :
                 Max(LastKnotNotAbove(tb[j], uSize(tb[j]) - 2, box.lo[j]) - (2 * refExt), 0))
        k2 == Vec(LAMBDA j :
                 Min(LastKnotNotAbove(tb[j], uSize(tb[j]) - 1, box.hi[j]) + (2 * refExt),
                     uSize(tb[j]) - 1))
    IN  [level |-> T, lo |-> local2globalIndex(k1, T), hi |-> local2globalIndex(k2, T)]

\* C13: refine(boxes, refExt) with refExt > 0 gives every part of the domain
\* the highest of the level it had and the levels of the grown boxes that
\* hold it (level at the centre of the box plus one, grown by 2*refExt cells
\* of that level on both sides in every direction), and rebuilds the active
\* sets and the offsets; with refExt = 0 the tree, the active sets and the
\* offsets are those of refine(boxes).
C13_RefineWithExtensionGrowsBoxes ==
    [][ (lastOp' = "refine_refExt") =>
           LET refExt == lastArg'[1]
               boxes  == lastArg'[2]
               grown  == { GrownBox(This, m_bases', boxes[i], refExt) : i \in 1..Len(boxes) }
               f      == Len(m_bases') - 1
               plain  == refine(This, boxes)
               after  == update_structure(This')
           IN  /\ (refExt = 0) =>
                     /\ m_tree' = plain.tree
                     /\ m_xmatrix' = plain.xmatrix
                     /\ m_xmatrix_offset' = plain.offset
               /\ (refExt > 0 /\ getMaxInsLevel(m_tree) < Len(m_bases)) =>
                     /\ \A c \in CellsOf(m_bases'[f + 1]) :
                           LET at == local2globalIndex(Vec(LAMBDA j : c[j]), f)
                           IN  levelOf(m_tree', c, f) =
                                  SetMax({ levelOf(m_tree, c, f) } \cup
                                         { g.level : g \in { h \in grown :
                                              \A j \in Dirs : /\ h.lo[j] <= at[j]
                                                              /\ at[j] < h.hi[j] } })
                     /\ m_xmatrix' = after.xmatrix
                     /\ m_xmatrix_offset' = after.offset ]_vars

\* refine(boxes, 1) has grown the box at the corner of the domain and
\* inserted it at level 1; a part of the domain is left at level 0.
C13_Witness ==
    /\ lastOp = "refine_refExt"
    /\ nOps = 1
    /\ lastArg = << 1, << [lo |-> << 0, 0 >>, hi |-> << 2 * Q + 1, 2 * Q + 1 >>] >> >>
    /\ getMaxInsLevel(m_tree) = 1
    /\ \E l \in m_tree.leaves : l.level = 0
    /\ \E l \in m_tree.leaves : l.level = 1

(***************************************************************************)
(* Properties of refineElements.                                           *)
(***************************************************************************)

\* The boxes of the flat vector given to refineElements: the level and the
\* corners, the corners in the indices of the tree.
BoxesOfVector(boxes) ==
    { LET at   == i * (2 * Dim + 1)
          lvl  == boxes[at + 1]
      IN  [level |-> lvl,
           lo |-> local2globalIndex(Vec(LAMBDA j : boxes[at + 1 + j]), lvl),
           hi |-> local2globalIndex(Vec(LAMBDA j : boxes[at + 1 + Dim + j]), lvl)]
      : i \in 0..((Len(boxes) \div (2 * Dim + 1)) - 1) }

\* C14: refineElements(boxes) gives every cell the highest of the level it
\* had and the stated levels of the boxes that hold it, whatever the levels
\* of the region were; afterwards the maximum inserted level is at least the
\* largest stated level, there is a tensor basis of that level, and the
\* active sets and the offsets are rebuilt.
C14_RefineElementsInsertsAtStatedLevels ==
    [][ (lastOp' = "refineElements") =>
           LET given == BoxesOfVector(lastArg')
               f     == Len(m_bases') - 1
               after == update_structure(This')
           IN  /\ \A c \in CellsOf(m_bases'[f + 1]) :
                     LET at == local2globalIndex(Vec(LAMBDA j : c[j]), f)
                     IN  levelOf(m_tree', c, f) =
                            SetMax({ levelOf(m_tree, c, f) } \cup
                                   { g.level : g \in { h \in given :
                                        \A j \in Dirs : /\ h.lo[j] <= at[j]
                                                        /\ at[j] < h.hi[j] } })
               /\ \A g \in given : getMaxInsLevel(m_tree') >= g.level
               /\ Len(m_bases') > getMaxInsLevel(m_tree')
               /\ m_xmatrix' = after.xmatrix
               /\ m_xmatrix_offset' = after.offset ]_vars

\* refineElements has inserted a box of level 1 into a region that a box of
\* level 2 had refined before: the region keeps level 2 where the box of
\* level 2 lies and has level 1 in the rest of the box of level 1.
C14_Witness ==
    /\ lastOp = "refineElements"
    /\ nOps = 2
    /\ lastArg = << 1, 0, 0, 2, 2 >>
    /\ { l.level : l \in m_tree.leaves } = { 0, 1, 2 }

(***************************************************************************)
(* C15: what active_into lists for a point.                                *)
(***************************************************************************)

\* Twice a point, and the points given to one call of active_into.
TwiceOf(pt) == Vec(LAMBDA j : 2 * pt[j])
QuerySeqs == { << p >> : p \in QueryPoints } \cup
             { << p, q >> : p \in QueryPoints, q \in QueryPoints }

\* The support of the function k of the tensor basis tb holds the point.
SupportHolds(tb, k, u2) ==
    \A j \in Dirs : /\ 2 * tb[j].knots[k[j] + 1] <= u2[j]
                    /\ u2[j] <= 2 * tb[j].knots[k[j] + tb[j].deg + 2]

\* The hierarchical indices of the functions of the levels 0..lvl that are in
\* the active set of their level and hold the point in their support.
ActiveAtPoint(s, lvl, u2) ==
    UNION { { s.offset[i + 1] + rankIn(s.xmatrix[i + 1], tbIndex(s.bases[i + 1], k)) :
                k \in { h \in TensorIndices(s.bases[i + 1]) :
                          /\ tbIndex(s.bases[i + 1], h) \in Range(s.xmatrix[i + 1])
                          /\ SupportHolds(s.bases[i + 1], h, u2) } } :
            i \in 0..lvl }

\* C15: for every point of a call of active_into whose reads are inside the
\* arrays, the column of the point holds exactly the hierarchical indices of
\* the functions that are active at a level not above the level of the leaf
\* of the point and hold the point in their support, in strictly increasing
\* order (level by level), each below size(); the rest of the column, up to
\* the length of the longest column of the call, is filled with zeros.
C15_ActiveIntoListsActiveFunctions ==
    \A u \in QuerySeqs :
        (\A p \in 1..Len(u) : activeIntoDefined(This, TwiceOf(u[p]))) =>
            LET u2     == AsTuple([p \in 1..Len(u) |-> TwiceOf(u[p])])
                result == active_into(This, u2, << >>)
                exp(p) == ActiveAtPoint(This, getLevelAtPoint(This, u2[p], 0), u2[p])
                rows   == SetMax({ Cardinality(exp(p)) : p \in 1..Len(u) })
            IN  \A p \in 1..Len(u) :
                    LET n == Cardinality(exp(p))
                    IN  /\ Len(result[p]) = rows
                        /\ { result[p][r] : r \in 1..n } = exp(p)
                        /\ \A r \in 1..(n - 1) : result[p][r] < result[p][r + 1]
                        /\ \A r \in 1..rows : result[p][r] < size(This)
                        /\ \A r \in (n + 1)..rows : result[p][r] = 0

\* active_into lists functions of two levels for a point: the point lies in a
\* leaf of level 1 and in the support of an active function of level 0.
C15_Witness ==
    \E pt \in QueryPoints :
        LET u2 == TwiceOf(pt)
        IN  /\ upToDate
            /\ activeIntoDefined(This, u2)
            /\ getLevelAtPoint(This, u2, 0) >= 1
            /\ \E r \in Range(active_into(This, << u2 >>, << >>)[1]) :
                   r < m_xmatrix_offset[2]
            /\ \E r \in Range(active_into(This, << u2 >>, << >>)[1]) :
                   r >= m_xmatrix_offset[2]

(***************************************************************************)
(* C16: the hierarchical index of a flat tensor index.                     *)
(***************************************************************************)

\* The flat tensor indices asked for at a level: those of the tensor basis
\* of the level and one past them, a few where there is no tensor basis.
FlatIndicesOf(level) ==
    IF level < Len(m_bases) THEN 0..Cardinality(TensorIndices(m_bases[level + 1]))
    ELSE 0..3

\* The pairs (level, index) with index in the active set of the level.
ActivePairs ==
    UNION { { << i - 1, x >> : x \in Range(m_xmatrix[i]) } : i \in 1..Len(m_xmatrix) }

\* C16: flatTensorIndexToHierachicalIndex(index, level) is the offset of the
\* level plus the position of index in the active set of the level when
\* index is in that active set, and -1 when there is no such level or index
\* is not in the active set; over all pairs of a level and an active index
\* of the level the values are pairwise distinct and are exactly
\* 0 .. size() - 1.
C16_HierarchicalIndexIsOffsetPlusRank ==
    /\ \A level \in 0..Len(m_xmatrix) : \A index \in FlatIndicesOf(level) :
           LET h == flatTensorIndexToHierachicalIndex(This, index, level)
           IN  IF level < Len(m_xmatrix) /\ index \in Range(m_xmatrix[level + 1])
               THEN \E n \in 1..Len(m_xmatrix[level + 1]) :
                        /\ m_xmatrix[level + 1][n] = index
                        /\ h = m_xmatrix_offset[level + 1] + (n - 1)
               ELSE h = -1
    /\ \A a \in ActivePairs : \A b \in ActivePairs :
           a # b => flatTensorIndexToHierachicalIndex(This, a[2], a[1])
                      # flatTensorIndexToHierachicalIndex(This, b[2], b[1])
    /\ m_xmatrix # << >> =>
           { flatTensorIndexToHierachicalIndex(This, a[2], a[1]) : a \in ActivePairs }
               = 0..(size(This) - 1)

\* Two levels have active functions: the first active index of level 1 gets
\* the offset of level 1, which is not 0, and an index that is not active at
\* level 0 gets -1.
C16_Witness ==
    /\ Len(m_xmatrix) >= 2
    /\ m_xmatrix_offset[2] > 0
    /\ m_xmatrix[2] # << >>
    /\ flatTensorIndexToHierachicalIndex(This, m_xmatrix[2][1], 1) = m_xmatrix_offset[2]
    /\ \E index \in FlatIndicesOf(0) :
           flatTensorIndexToHierachicalIndex(This, index, 0) = -1

(***************************************************************************)
(* C17: the active sets are sorted.                                        *)
(***************************************************************************)

\* C17: in every state that update_structure has left, the active set of
\* every level is in strictly increasing order of the flat tensor index, so
\* no index is in it twice.
C17_ActiveSetsStrictlyIncreasing ==
    upToDate =>
        \A i \in 1..Len(m_xmatrix) :
            /\ \A n \in 1..(Len(m_xmatrix[i]) - 1) : m_xmatrix[i][n] < m_xmatrix[i][n + 1]
            /\ Cardinality(Range(m_xmatrix[i])) = Len(m_xmatrix[i])

\* update_structure has rebuilt the active sets after a refinement: two
\* levels hold more than one active function each.
C17_Witness ==
    /\ upToDate
    /\ nOps >= 1
    /\ lastOp \in UpdateOps
    /\ Len(m_xmatrix) >= 2
    /\ Len(m_xmatrix[1]) >= 2
    /\ Len(m_xmatrix[2]) >= 2

(***************************************************************************)
(* C18: the levels makeCompressed removes.                                 *)
(***************************************************************************)

\* The first n elements of a sequence.
FirstOf(q, n) == SubSeq(q, 1, n)

\* C18: makeCompressed removes levels from the tail only: the tensor bases,
\* the active sets and the offsets it leaves are those of the lowest levels
\* it found, unchanged and in their order, the removed levels had no active
\* function, and the three arrays lose the same number of levels.
C18_MakeCompressedTrimsTail ==
    [][ (lastOp' = "makeCompressed") =>
           \E n \in 0..Len(m_xmatrix) :
               /\ m_bases' = FirstOf(m_bases, Len(m_bases) - n)
               /\ m_xmatrix' = FirstOf(m_xmatrix, Len(m_xmatrix) - n)
               /\ m_xmatrix_offset' = FirstOf(m_xmatrix_offset, Len(m_xmatrix_offset) - n)
               /\ \A i \in (Len(m_xmatrix) - n + 1)..Len(m_xmatrix) :
                      m_xmatrix[i] = << >> ]_vars

(***************************************************************************)
(* C19: the calls the assertions reject.                                   *)
(***************************************************************************)

\* The call has failed and has left the object as it was.
FailedUnchanged(r) == r.failed /\ r.s = This

SequentialBases(first, second) ==
    LET s0 == [bases |-> CHOOSE b \in { construct(tbasis).bases : tbasis \in WideBases } : TRUE]
    IN  needLevel(needLevel(s0, calls[first].maxLevel), calls[second].maxLevel).bases

BothDone == \A t \in Threads : calls[t].pc = "done"

\* C20: when the two calls of needLevel have run one after the other, none
\* starting while the other was running, the array of tensor bases is the
\* one sequential execution gives, in either order.
C20_SerialisedCallsEqualSequential ==
    (BothDone /\ ~overlapped) =>
        /\ m_bases = SequentialBases(1, 2)
        /\ m_bases = SequentialBases(2, 1)

\* Two calls that ran at the same time have both returned, and the array
\* has more tensor bases than the larger of the two requests needs.
C20_Witness ==
    /\ BothDone
    /\ overlapped
    /\ m_bases # SequentialBases(1, 2)
    /\ m_bases # SequentialBases(2, 1)
    /\ Len(m_bases) > Len(SequentialBases(1, 2))
    /\ \A t \in Threads : Len(m_bases) > calls[t].maxLevel + 1

(***************************************************************************)
(* C21: refineSide.                                                        *)
(***************************************************************************)

\* The cells of the index level of the tree t that touch the side: the
\* first or the last cell of the direction of the side.
CellsAtSide(t, side) ==
    LET dir == sideDirection(side) + 1
        at  == IF sideParameter(side) = 0 THEN 0 ELSE t.upperIndex[dir] - 1
    IN  { c \in [Dirs -> 0..(SetMax(Range(t.upperIndex)) - 1)] :
              /\ \A j \in Dirs : c[j] < t.upperIndex[j]
              /\ c[dir] = at }

\* C21: refineSide(side, n) leaves every cell that touches the side n
\* levels above the level it had, and with n = 0 it leaves the tree, the
\* tensor bases, the active sets and the offsets as they were.
C21_RefineSideRaisesTheSideByN ==
    [][ (lastOp' = "refineSide") =>
           LET side == lastArg'[1]
               n    == lastArg'[2]
           IN  /\ \A c \in CellsAtSide(m_tree, side) :
                      levelOf(m_tree', c, IndexLevel) = levelOf(m_tree, c, IndexLevel) + n
               /\ n = 0 => UNCHANGED << m_tree, m_bases, m_xmatrix, m_xmatrix_offset >> ]_vars

\* refineSide has refined the west side twice after a refinement that had
\* reached a part of that side only: the tree has leaves of the levels 2
\* and 3 at the side.
C21_Witness ==
    /\ lastOp = "refineSide"
    /\ lastArg = << 1, 2 >>
    /\ nOps = 2
    /\ { levelOf(m_tree, c, IndexLevel) : c \in CellsAtSide(m_tree, 1) } = { 2, 3 }

(***************************************************************************)
(* C22: degreeElevate and degreeIncrease.                                  *)
(***************************************************************************)

\* C22: degreeElevate(i, dir) and degreeIncrease(i, dir) raise the degree by
\* i, in the direction dir or in every direction for dir = -1, at every level
\* the array of tensor bases had; afterwards the stored degrees are those of
\* level 0 and of every other level, the active sets and the offsets are
\* the ones update_structure builds, and the properties of the offsets (C1)
\* and of the active sets (C2) hold.
C22_DegreeChangeReachesEveryLevel ==
    [][ (lastOp' \in { "degreeElevate", "degreeIncrease" }) =>
           LET i      == lastArg'[1]
               dir    == lastArg'[2]
               by(c)  == IF dir = -1 \/ dir = c - 1 THEN i ELSE 0
               after  == update_structure(This')
           IN  /\ Len(m_bases') >= Len(m_bases)
               /\ \A l \in 1..Len(m_bases) : \A c \in Dirs :
                      m_bases'[l][c].deg = m_bases[l][c].deg + by(c)
               /\ \A l \in 1..Len(m_bases') : \A c \in Dirs :
                      m_bases'[l][c].deg = m_deg'[c]
               /\ m_xmatrix' = after.xmatrix
               /\ m_xmatrix_offset' = after.offset
               /\ upToDate'
               /\ C1_OffsetsArePrefixSums'
               /\ C2_ActiveIffQueryReturnsLevel' ]_vars

\* degreeElevate has raised the degree of the first direction of a refined
\* basis: two levels have active functions, of degree 2 and 1.
C22_Witness ==
    /\ lastOp = "degreeElevate"
    /\ lastArg = << 1, 0 >>
    /\ nOps = 2
    /\ m_deg = << 2, 1 >>
    /\ Len(m_xmatrix) >= 2
    /\ m_xmatrix[1] # << >>
    /\ m_xmatrix[2] # << >>

(***************************************************************************)
(* C24: the iteration over the elements at a side                          *)
(***************************************************************************)

\* The elements at a side: for every leaf of the tree that reaches the
\* side, the cells of the level of the leaf that lie in the leaf next to
\* the side, as boxes of the parameter domain that are flat in the
\* direction of the side.
BoundaryElements(side) ==
    LET dir  == sideDirection(side) + 1
        par  == sideParameter(side)
        at   == { leaf \in m_tree.leaves :
                      IF par = 1 THEN leaf.hi[dir] = m_tree.upperIndex[dir]
                      ELSE leaf.lo[dir] = 0 }
        step(leaf) == Pow2(IndexLevel - leaf.level)
        kv(leaf, j) == m_bases[leaf.level + 1][j]
        face(leaf)  == IF par = 1 THEN kv(leaf, dir).knots[Len(kv(leaf, dir).knots)]
                       ELSE kv(leaf, dir).knots[1]
        cells(leaf) == { c \in [Dirs -> 0..SetMax(Range(m_tree.upperIndex))] :
                             /\ c[dir] = 0
                             /\ \A j \in Dirs \ { dir } :
                                    /\ leaf.lo[j] <= c[j] * step(leaf)
                                    /\ (c[j] + 1) * step(leaf) <= leaf.hi[j] }
    IN  UNION { { [level   |-> leaf.level,
                   m_lower |-> Vec(LAMBDA j : IF j = dir THEN face(leaf)
                                              ELSE uValue(kv(leaf, j), c[j])),
                   m_upper |-> Vec(LAMBDA j : IF j = dir THEN face(leaf)
                                              ELSE uValue(kv(leaf, j), c[j] + 1))]
                  : c \in cells(leaf) } : leaf \in at }

\* Only next() has been called since the construction.
OnlyNext == iterCalls.last \in { "construct", "next" } /\ iterCalls.nextBy = 0
                /\ iterCalls.reset = 0

C23_ResetAllowsAnotherIteration ==
    (iterCalls.last = "reset") =>
        /\ iter.m_isGood
        /\ ElementOf(This, iter) = ElementOf(This, iterConstruct(This, iter.side))
        /\ iter = iterConstruct(This, iter.side)

(***************************************************************************)
(* C30: next(increment) of the boundary iterator                           *)
(***************************************************************************)

\* increment calls of next(), made while next() returns true
RECURSIVE iterNextTimes(_, _, _)
iterNextTimes(s, it, k) ==
    IF k <= 0 \/ ~it.m_isGood \/ it.undefined THEN it
    ELSE iterNextTimes(s, iterNext(s, it), k - 1)

\* Two iterators with the same good(), both with defined reads, that stand
\* at the same element when they are good.
SamePlace(a, b) ==
    /\ ~a.undefined /\ ~b.undefined
    /\ a.m_isGood = b.m_isGood
    /\ a.m_isGood => ElementOf(This, a) = ElementOf(This, b)

\* C30: next(increment) on a good iterator leaves it where increment calls
\* of next() leave it, with the same good(), also when the steps go over
\* the last element of the leaf or over the end of the iteration.
C30_NextByEqualsRepeatedNext ==
    [][ (iterCalls'.last = "nextBy" /\ iter.m_isGood) =>
            SamePlace(iter', iterNextTimes(This, iter, iterCalls'.increment)) ]_vars

(***************************************************************************)
(* C25: flatTensorIndexesToHierachicalIndexes and the single form          *)
(***************************************************************************)

\* Flat indices of a level to ask for: the first two and the last of the
\* active set, the one after the last, and the smallest that is not active.
IndexSamples(level) ==
    LET xm  == m_xmatrix[level + 1]
        act == Range(xm)
        off == FlatIndicesOf(level) \ act
    IN  { xm[n] : n \in { 1, 2, Len(xm) } \cap DOMAIN xm }
            \cup (IF xm = << >> THEN { 0 } ELSE { xm[Len(xm)] + 1 })
            \cup (IF off = {} THEN {} ELSE { SetMin(off) })

\* The non-decreasing lists of up to MaxIndexes of these indices.
SortedIndexes(level) ==
    { l \in UNION { [1..n -> IndexSamples(level)] : n \in 1..MaxIndexes } :
          \A n \in 1..(Len(l) - 1) : l[n] <= l[n + 1] }

\* C25: for every level of the active-set array and every non-decreasing
\* list of flat indices, with or without repeated entries,
\* flatTensorIndexesToHierachicalIndexes puts at every place of the list
\* what flatTensorIndexToHierachicalIndex returns for the entry there.
C25_BatchFormEqualsSingleForm ==
    \A level \in 0..(Len(m_xmatrix) - 1) : \A indexes \in SortedIndexes(level) :
        flatTensorIndexesToHierachicalIndexes(This, indexes, level)
            = [n \in 1..Len(indexes) |->
                   flatTensorIndexToHierachicalIndex(This, indexes[n], level)]

(***************************************************************************)
(* C26: the length of the offset table                                     *)
(***************************************************************************)

\* C26: in every state the public operations reach, also after transfer
\* and transfer2, the offset table has one entry more than the active-set
\* array, so that the offsets of a level and of the level after it exist
\* for every level of the active-set array.
C26_OffsetTableOneLongerThanActiveSets ==
    Len(m_xmatrix_offset) = Len(m_xmatrix) + 1

(***************************************************************************)
(* C27: the index pairs of refine(boxes, refExt)                           *)
(***************************************************************************)

\* The tuples (level, k1, k2) of the vector refine(boxes, refExt) hands to
\* refineElements.
TuplesOf(refVector) ==
    { LET at == i * (2 * Dim + 1)
      IN  [level |-> refVector[at + 1],
           k1 |-> Vec(LAMBDA j : refVector[at + 1 + j]),
           k2 |-> Vec(LAMBDA j : refVector[at + 1 + Dim + j])]
      : i \in 0..((Len(refVector) \div (2 * Dim + 1)) - 1) }

\* C27: in refine(boxes, refExt) with refExt > 0, for every box and every
\* direction the pair (k1, k2) handed to refineElements has
\* 0 <= k1 <= k2 <= the index of the last unique knot of the level of the
\* box in that direction.
C27_ExtendedBoxStaysInIndexDomain ==
    [][ (lastOp' = "refine_refExt" /\ lastArg'[1] > 0) =>
           \A oob \in (IF getMaxInsLevel(m_tree) >= Len(m_bases) THEN 0..(MaxFine - 1) ELSE { 0 }) :
               LET r == refineExtLoop(This, lastArg'[2], lastArg'[1], oob, << >>)
               IN  \A b \in TuplesOf(r.refVector) : \A j \in Dirs :
                       /\ 0 <= b.k1[j]
                       /\ b.k1[j] <= b.k2[j]
                       /\ b.k2[j] <= uSize(r.s.bases[b.level + 1][j]) - 1 ]_vars

(***************************************************************************)
(* C28: the index box of refine(boxes)                                     *)
(***************************************************************************)

\* Boxes in the domain, the lower corner not above the upper one: their
\* corners at the ends of the domain, just inside them and at a knot of
\* level 2 in between, so that there are boxes of zero width, boxes inside
\* one cell of the finest level and boxes at the ends of the domain.
DomainBoxes ==
    LET xs == { 0, 1, 5 * Q, 2 * Unit - 1, 2 * Unit }
        ys == { 0, 1, 3 * Q, Unit }
    IN  { [lo |-> << x1, y1 >>, hi |-> << x2, y2 >>] :
              x1 \in xs, x2 \in xs, y1 \in ys, y2 \in ys } \cap
        { b \in [lo : xs \X ys, hi : xs \X ys] : \A j \in Dirs : b.lo[j] <= b.hi[j] }

\* C28: for every box in the domain the index box refine(boxes) computes
\* from the finest tensor basis and hands to sinkBox has k1[j] < k2[j] in
\* every direction j and lies in the index domain of the finest level,
\* 0 .. number of unique knots - 1.
C28_RefineIndexBoxIsProperAndInDomain ==
    \A box \in DomainBoxes :
        LET ib == refineIndexBox(This, box)
            kv(j) == m_bases[Len(m_bases)][j]
        IN  \A j \in Dirs :
                /\ 0 <= ib.k1[j]
                /\ ib.k1[j] < ib.k2[j]
                /\ ib.k2[j] <= uSize(kv(j)) - 1

\* refine has been called twice, the second time with a box of zero width
\* at the lower end of the domain and the box that reaches the upper end,
\* and the boxes of zero width at both ends of the domain would be sunk as
\* the first and the last cell of the finest level.
C28_Witness ==
    /\ lastOp = "refine" /\ nOps = 2 /\ Len(lastArg) = 2
    /\ lastArg[1].lo = lastArg[1].hi /\ lastArg[1].lo[1] = 0
    /\ lastArg[2].hi = << 2 * Unit, Unit >>
    /\ LET kv == m_bases[Len(m_bases)][1]
           low == refineIndexBox(This, [lo |-> << 0, 0 >>, hi |-> << 0, 0 >>])
           upp == refineIndexBox(This, [lo |-> << 2 * Unit, Unit >>, hi |-> << 2 * Unit, Unit >>])
       IN  /\ low.k1[1] = 0 /\ low.k2[1] = 1
           /\ upp.k1[1] = uSize(kv) - 2 /\ upp.k2[1] = uSize(kv) - 1

(***************************************************************************)
(* C29: numActive and the columns of active_into                           *)
(***************************************************************************)

\* C29: for every point of a call whose reads are inside the arrays,
\* numActive gives the number of hierarchical indices active_into lists for
\* the point before it fills the column; the rows of the column below them
\* are 0, and 0 is a hierarchical index of the basis, so that only numActive
\* tells the entries of a column from its filling.
C29_NumActiveCountsEntriesBeforePadding ==
    \A u \in QuerySeqs :
        (\A p \in 1..Len(u) : activeIntoDefined(This, TwiceOf(u[p]))) =>
            LET u2     == AsTuple([p \in 1..Len(u) |-> TwiceOf(u[p])])
                result == active_into(This, u2, << >>)
                num    == numActive(This, u2, 0)
            IN  /\ 0 < size(This)
                /\ \A p \in 1..Len(u) :
                       /\ num[p] = Len(activeOfPoint(This, u2[p], << >>))
                       /\ num[p] <= Len(result[p])
                       /\ SubSeq(result[p], 1, num[p]) = activeOfPoint(This, u2[p], << >>)
                       /\ \A r \in (num[p] + 1)..Len(result[p]) : result[p][r] = 0

\* A call of active_into for two points after a refinement: the column of
\* one point starts with the hierarchical index 0, and the column of the
\* other is shorter and filled with zeros.
C29_Witness ==
    /\ nOps >= 1
    /\ \E u \in QuerySeqs :
           /\ Len(u) = 2
           /\ \A p \in 1..2 : activeIntoDefined(This, TwiceOf(u[p]))
           /\ LET u2     == AsTuple([p \in 1..2 |-> TwiceOf(u[p])])
                  result == active_into(This, u2, << >>)
                  num    == numActive(This, u2, 0)
              IN  /\ num[1] >= 1 /\ result[1][1] = 0
                  /\ num[2] >= 1 /\ num[2] < Len(result[2])

====
